---------------------------- MODULE Spec2Model ----------------------------
(***************************************************************************)
(* A model of the Jira plugin of SorenHQ/internal-plugins: the credential  *)
(* store (credentials package), the topic router                           *)
(* (extractSpaceIdFromSubject), the onboarding handler, the action         *)
(* dispatch helper handleActionWithCredentialsCheckSync in its two         *)
(* versions (direct reply, and job handshake), the action handlers and the *)
(* Jira client.                                                            *)
(*                                                                         *)
(* Representation.                                                         *)
(*  - A NATS subject is held as the sequence of its dot-separated          *)
(*    segments, i.e. as strings.Split(subject, ".") returns it: "a.bin.T"  *)
(*    is <<"a", "bin", "T">>, "" is <<"">>.                                *)
(*  - A decoded JSON value is a record [t, v]: t is the JSON type and v    *)
(*    the text of the value; a JSON object decoded into a Go map is a      *)
(*    function from its field names to such values.                        *)
(*  - The credentials file is [state, members]: state "missing" (no       *)
(*    file), "empty" (a file of zero bytes, as os.WriteFile leaves it      *)
(*    between its open with O_TRUNC and its write), "torn" (one text over  *)
(*    the head of a longer one) or "json" (the text of a JSON object, held *)
(*    as the set of its members).                                          *)
(*  - Every message n is handled by a unit of execution of its own; a      *)
(*    handler's reads and writes of the file are separate steps, so that   *)
(*    handlers interleave there.                                           *)
(*  - sdkv2.GetPlugin() belongs to the SDK, outside this repository; the   *)
(*    job version of the helper handles both of its outcomes, so the       *)
(*    model takes either for a run of the process: plugin is TRUE when the *)
(*    lookup yields the instance and FALSE when it yields nil.             *)
(***************************************************************************)
EXTENDS Naturals, Sequences, FiniteSets, TLC

VARIABLES
    file,       \* jira_credentials.json
    pc,         \* pc[n]: where the handling of message n is
    msg,        \* msg[n]: message n, once delivered
    loc,        \* loc[n]: the local variables of the handler of message n
    replies,    \* replies[n]: what was sent on message n's reply address, in order
    calls,      \* calls[n]: the HTTP requests made for message n, in order
    started,    \* started[n]: how many times actionFunc was invoked for message n
    jobs,       \* the plugin's job -> entity id association (StoreEntityIdForJob)
    events,     \* the completion events published with plugin.Done, in order
    saved,      \* history: the keys written to the file so far
    accepted,   \* history: key -> bundle of the last onboarding answered "accepted"
    rt,         \* the router's input and outputs (specification SpecRouter)
    hd,         \* a business function's input and outputs (specification SpecHandler)
    st,         \* the last call on the store alone (specification SpecStore)
    resps,      \* history: resps[n]: the outcomes of the HTTP requests of message n
    plugin      \* whether sdkv2.GetPlugin() yields the plugin instance

vars == <<file, pc, msg, loc, replies, calls, started, jobs, events,
          saved, accepted, rt, hd, st, resps, plugin>>

----------------------------------------------------------------------------
(* Bounds of the model *)

\* number of messages delivered in one behaviour, each handled by a unit of
\* execution of its own
MaxMsgs == 2
\* longest subject, in segments, the router is applied to in SpecRouter
MaxSegs == 4

Msgs == 1..MaxMsgs

----------------------------------------------------------------------------
(* JSON values *)

Str(s) == [t |-> "str", v |-> s]
Num(s) == [t |-> "num", v |-> s]
Bool(s) == [t |-> "bool", v |-> s]
Null == [t |-> "null", v |-> "null"]
EmptyMap == [k \in {} |-> Null]

\* m with key k set to v (Go: m[k] = v)
MapSet(m, k, v) == [x \in DOMAIN m \cup {k} |-> IF x = k THEN v ELSE m[x]]

----------------------------------------------------------------------------
(* credentials package *)

JiraCredentials(url, email, token) ==
    [InstanceURL |-> url, Email |-> email, APIToken |-> token]

NoCreds == JiraCredentials("", "", "")

\* a variant that leaves the token out of the text
MarshalIndent_NoToken(allCreds) ==
    {[key |-> k, instanceUrl |-> allCreds[k].InstanceURL,
      email |-> allCreds[k].Email, apiToken |-> ""] :
        k \in DOMAIN allCreds}

\* json.MarshalIndent(allCreds, "", "  "): the members of the JSON object, one
\* per key, each with the three tagged fields of JiraCredentials
MarshalIndent(allCreds) ==
    {[key |-> k, instanceUrl |-> allCreds[k].InstanceURL,
      email |-> allCreds[k].Email, apiToken |-> allCreds[k].APIToken] :
        k \in DOMAIN allCreds}

\* json.Unmarshal(data, &allCreds) of the text of an object
Unmarshal(members) ==
    [k \in {m.key : m \in members} |->
        LET m == CHOOSE m \in members : m.key = k
        IN JiraCredentials(m.instanceUrl, m.email, m.apiToken)]

FileMissing == [state |-> "missing", members |-> {}]
FileEmpty == [state |-> "empty", members |-> {}]
\* the text of one collection followed by the tail of a longer one
FileTorn == [state |-> "torn", members |-> {}]
\* a file that os.ReadFile cannot read (a permission, an I/O error)
FileUnreadable == [state |-> "unreadable", members |-> {}]
FileJson(members) == [state |-> "json", members |-> members]

\* a variant that takes a missing file for an empty collection
loadAllCredentials_MissingIsEmpty(f) ==
    IF f.state = "missing" THEN [err |-> "nil", allCreds |-> EmptyMap]
    ELSE IF f.state = "unreadable" THEN [err |-> "read", allCreds |-> EmptyMap]
    ELSE IF f.state \in {"empty", "torn"}
         THEN [err |-> "unmarshal", allCreds |-> EmptyMap]
    ELSE [err |-> "nil", allCreds |-> Unmarshal(f.members)]

\* loadAllCredentials: os.ReadFile, then json.Unmarshal
loadAllCredentials(f) ==
    IF f.state = "missing" THEN [err |-> "not_exist", allCreds |-> EmptyMap]
    ELSE IF f.state = "unreadable" THEN [err |-> "read", allCreds |-> EmptyMap]
    ELSE IF f.state \in {"empty", "torn"}
         THEN [err |-> "unmarshal", allCreds |-> EmptyMap]
    ELSE [err |-> "nil", allCreds |-> Unmarshal(f.members)]

\* a variant that keeps the empty identifier as the key
SpaceKey_Identity(spaceID) == spaceID

\* spaceKey := spaceID; if spaceKey == "" { spaceKey = "default" }
SpaceKey(spaceID) == IF spaceID = "" THEN "default" ELSE spaceID

\* a variant that always reads the default tenant's entry
GetCredentials_Default(f, spaceID) ==
    LET l == loadAllCredentials(f)
    IN IF l.err # "nil" THEN [err |-> l.err, creds |-> NoCreds]
       ELSE IF "default" \notin DOMAIN l.allCreds
            THEN [err |-> "not_found", creds |-> NoCreds]
            ELSE [err |-> "nil", creds |-> l.allCreds["default"]]

\* a variant that falls back to the default tenant's entry
GetCredentials_FallbackDefault(f, spaceID) ==
    LET l == loadAllCredentials(f)
        spaceKey == SpaceKey(spaceID)
    IN IF l.err # "nil" THEN [err |-> l.err, creds |-> NoCreds]
       ELSE IF spaceKey \in DOMAIN l.allCreds
            THEN [err |-> "nil", creds |-> l.allCreds[spaceKey]]
       ELSE IF "default" \in DOMAIN l.allCreds
            THEN [err |-> "nil", creds |-> l.allCreds["default"]]
            ELSE [err |-> "not_found", creds |-> NoCreds]

\* GetCredentials: the bundle under the tenant's key, or the error
GetCredentials(f, spaceID) ==
    LET l == loadAllCredentials(f)
        spaceKey == SpaceKey(spaceID)
    IN IF l.err # "nil" THEN [err |-> l.err, creds |-> NoCreds]
       ELSE IF spaceKey \notin DOMAIN l.allCreds
            THEN [err |-> "not_found", creds |-> NoCreds]
            ELSE [err |-> "nil", creds |-> l.allCreds[spaceKey]]

\* a variant that is false only on the not-found error
HasCredentials_UnlessNotFound(f, spaceID) ==
    GetCredentials(f, spaceID).err # "not_found"

\* a variant that only asks whether the collection can be read
HasCredentials_FileOnly(f, spaceID) == loadAllCredentials(f).err = "nil"

\* HasCredentials: err == nil of GetCredentials
HasCredentials(f, spaceID) == GetCredentials(f, spaceID).err = "nil"

GetAllSpaces(f) ==
    LET l == loadAllCredentials(f)
    IN IF l.err # "nil" THEN [err |-> l.err, spaces |-> {}]
       ELSE [err |-> "nil", spaces |-> DOMAIN l.allCreds]

\* a variant that forgets allCreds[spaceKey] = creds
SaveCollect_NoSet(f, spaceID, creds) ==
    LET l == loadAllCredentials(f)
    IN IF l.err # "nil" /\ l.err # "not_exist"
       THEN [err |-> "load", allCreds |-> EmptyMap]
       ELSE [err |-> "nil", allCreds |-> l.allCreds]

\* a variant that takes every failure of the load for an empty collection
SaveCollect_AnyErrorIsEmpty(f, spaceID, creds) ==
    LET l == loadAllCredentials(f)
    IN [err |-> "nil",
        allCreds |-> MapSet(l.allCreds, SpaceKey(spaceID), creds)]

\* a variant that keeps a field of the previous bundle where the new one is ""
SaveCollect_Merge(f, spaceID, creds) ==
    LET l == loadAllCredentials(f)
        k == SpaceKey(spaceID)
        old == IF k \in DOMAIN l.allCreds THEN l.allCreds[k] ELSE NoCreds
        merged == JiraCredentials(
            IF creds.InstanceURL = "" THEN old.InstanceURL ELSE creds.InstanceURL,
            IF creds.Email = "" THEN old.Email ELSE creds.Email,
            IF creds.APIToken = "" THEN old.APIToken ELSE creds.APIToken)
    IN IF l.err # "nil" /\ l.err # "not_exist"
       THEN [err |-> "load", allCreds |-> EmptyMap]
       ELSE [err |-> "nil", allCreds |-> MapSet(l.allCreds, k, merged)]

\* a variant that keeps the token of the bundle already stored under the key
SaveCollect_KeepsToken(f, spaceID, creds) ==
    LET l == loadAllCredentials(f)
        k == SpaceKey(spaceID)
        kept == IF k \in DOMAIN l.allCreds
                THEN JiraCredentials(creds.InstanceURL, creds.Email,
                                     l.allCreds[k].APIToken)
                ELSE creds
    IN IF l.err # "nil" /\ l.err # "not_exist"
       THEN [err |-> "load", allCreds |-> EmptyMap]
       ELSE [err |-> "nil", allCreds |-> MapSet(l.allCreds, k, kept)]

\* SaveCredentials up to allCreds[spaceKey] = creds: the collection it goes on to
\* write, or the error it returns when the load failed for another reason than
\* a missing file
SaveCollect(f, spaceID, creds) ==
    LET l == loadAllCredentials(f)
    IN IF l.err # "nil" /\ l.err # "not_exist"
       THEN [err |-> "load", allCreds |-> EmptyMap]
       ELSE [err |-> "nil",
             allCreds |-> MapSet(l.allCreds, SpaceKey(spaceID), creds)]

----------------------------------------------------------------------------
(* The topic router *)

RECURSIVE ScanMain(_, _)
ScanMain(parts, i) ==
    IF i > Len(parts) THEN ""
    ELSE IF parts[i] = "bin" /\ i + 1 <= Len(parts) THEN parts[i + 1]
    ELSE ScanMain(parts, i + 1)

\* the copy of package main (onboarding, intro responder)
extractSpaceIdFromSubjectMain(subject) == ScanMain(subject, 1)

RECURSIVE ScanIssues(_, _)
ScanIssues(parts, i) ==
    IF i > Len(parts) THEN ""
    ELSE IF parts[i] = "bin" /\ i + 1 <= Len(parts) THEN parts[i + 1]
    ELSE ScanIssues(parts, i + 1)

\* a variant that takes the segment after the last "bin"
extractSpaceIdFromSubject_LastBin(subject) ==
    LET bins == {i \in 1..(Len(subject) - 1) : subject[i] = "bin"}
    IN IF bins = {} THEN ""
       ELSE subject[(CHOOSE i \in bins : \A j \in bins : j <= i) + 1]

\* the copy beside the direct dispatch helper
extractSpaceIdFromSubject(subject) == ScanIssues(subject, 1)

RECURSIVE ScanJob(_, _)
ScanJob(parts, i) ==
    IF i > Len(parts) THEN ""
    ELSE IF parts[i] = "bin" /\ i + 1 <= Len(parts) THEN parts[i + 1]
    ELSE ScanJob(parts, i + 1)

\* a variant that knows only the soren.v2.bin.{entityId} pattern
extractSpaceIdFromSubjectJob_V2Only(subject) ==
    IF Len(subject) >= 4 /\ subject[2] = "v2" /\ subject[3] = "bin"
    THEN subject[4] ELSE ""

\* the copy beside the handshake dispatch helper
extractSpaceIdFromSubjectJob(subject) == ScanJob(subject, 1)

----------------------------------------------------------------------------
(* client package: the Jira client *)

\* strings.TrimSuffix(jc.BaseURL, "/") on the instance URLs of the model
TrimSlash(url) ==
    IF url = "https://y.atlassian.net/" THEN "https://y.atlassian.net" ELSE url

\* makeRequest: the request handed to HTTPClient.Do (one per invocation)
makeRequest(creds, method, endpoint, body) ==
    [method |-> method, base |-> TrimSlash(creds.InstanceURL),
     endpoint |-> endpoint, bearer |-> creds.APIToken, body |-> body]

IsNil(v) == v.t = "null"
IsEmptyStr(v) == v.t = "str" /\ v.v = ""

\* for key, value := range m { if value != nil && value != "" { dst[key] = value } }
MergeNonEmpty(dst, m) ==
    [k \in DOMAIN dst \cup {x \in DOMAIN m : ~IsNil(m[x]) /\ ~IsEmptyStr(m[x])} |->
        IF k \in DOMAIN m /\ ~IsNil(m[k]) /\ ~IsEmptyStr(m[k]) THEN m[k] ELSE dst[k]]

Obj(f) == [t |-> "obj", v |-> f]

\* JiraClient.CreateIssue: the "fields" object of the request body
CreateIssueFields(projectKey, issueType, summary, description, additionalFields) ==
    LET base == [project |-> Obj([key |-> Str(projectKey)]),
                 summary |-> Str(summary),
                 issuetype |-> Obj([name |-> Str(issueType)])]
        withDesc == IF description # ""
                    THEN MapSet(base, "description", Str(description))
                    ELSE base
    IN MergeNonEmpty(withDesc, additionalFields)

\* JiraClient.AddComment: the request body
AddCommentBody(commentBody, visibility, additionalFields) ==
    LET base == [body |-> Str(commentBody)]
        withVis == IF DOMAIN visibility # {}
                   THEN MapSet(base, "visibility", Obj(visibility))
                   ELSE base
    IN MergeNonEmpty(withVis, additionalFields)

\* JiraClient.DeleteIssue: the endpoint
DeleteEndpoint(issueKeyOrId, deleteSubtasks) ==
    IF deleteSubtasks
    THEN <<"/rest/api/2/issue/", issueKeyOrId, "?deleteSubtasks=true">>
    ELSE <<"/rest/api/2/issue/", issueKeyOrId>>

\* An HTTP exchange's outcome: neterr (HTTPClient.Do failed: no response), or a
\* status with a body. A body is [json, text, errorMessages, errors]: json says
\* whether the text parses as a JSON object; errorMessages and errors are what
\* the jiraError struct decodes from it.
NetErr == [neterr |-> TRUE, status |-> "0",
           body |-> [json |-> FALSE, text |-> <<>>, errorMessages |-> <<>>,
                     errors |-> <<>>]]
Response(status, body) == [neterr |-> FALSE, status |-> status, body |-> body]

RECURSIVE Join(_, _)
\* strings.Join(elems, sep), every element and the result a sequence of pieces
Join(elems, sep) ==
    IF Len(elems) = 0 THEN <<>>
    ELSE IF Len(elems) = 1 THEN elems[1]
    ELSE elems[1] \o <<sep>> \o Join(Tail(elems), sep)

\* the text a client method makes of the parsed Jira error: the error messages,
\* then the field errors under a label (CreateIssue: "Missing or invalid
\* fields: ", DeleteIssue and AddComment: "Errors: "), joined with ". "
JiraErrorParts(body, label) ==
    LET fieldErrors == [i \in 1..Len(body.errors) |->
                            <<body.errors[i][1], ": ", body.errors[i][2]>>]
        errorParts ==
            [i \in 1..Len(body.errorMessages) |-> <<body.errorMessages[i]>>]
                \o (IF Len(fieldErrors) > 0
                    THEN <<<<label>> \o Join(fieldErrors, "; ")>>
                    ELSE <<>>)
    IN Join(errorParts, ". ")

\* the error on an unexpected status: the text of the parsed Jira error when
\* the body parses and has parts, else the raw body
StatusError(resp, label) ==
    LET parts == IF resp.body.json THEN JiraErrorParts(resp.body, label) ELSE <<>>
    IN IF Len(parts) > 0
       THEN [kind |-> "api", status |-> resp.status, parsed |-> TRUE, parts |-> parts]
       ELSE [kind |-> "api", status |-> resp.status, parsed |-> FALSE,
             parts |-> resp.body.text]

RawStatusError(resp) ==
    [kind |-> "api", status |-> resp.status, parsed |-> FALSE,
     parts |-> resp.body.text]

RequestError == [kind |-> "net", status |-> "", parsed |-> FALSE,
                 parts |-> <<"failed to make request">>]
UnmarshalError == [kind |-> "decode", status |-> "", parsed |-> FALSE,
                   parts |-> <<"failed to unmarshal">>]
NoError == [kind |-> "nil", status |-> "", parsed |-> FALSE, parts |-> <<>>]

\* ListProjects after makeRequest
ListProjectsResult(resp) ==
    IF resp.neterr THEN RequestError
    ELSE IF resp.status # "200" THEN RawStatusError(resp)
    ELSE IF ~resp.body.json THEN UnmarshalError
    ELSE NoError

\* CreateIssue after makeRequest
CreateIssueResult(resp) ==
    IF resp.neterr THEN RequestError
    ELSE IF resp.status # "201" THEN StatusError(resp, "Missing or invalid fields: ")
    ELSE IF ~resp.body.json THEN UnmarshalError
    ELSE NoError

\* DeleteIssue after makeRequest
DeleteIssueResult(resp) ==
    IF resp.neterr THEN RequestError
    ELSE IF resp.status # "204" /\ resp.status # "200"
         THEN StatusError(resp, "Errors: ")
    ELSE NoError

\* AddComment after makeRequest
AddCommentResult(resp) ==
    IF resp.neterr THEN RequestError
    ELSE IF resp.status # "201" THEN StatusError(resp, "Errors: ")
    ELSE IF ~resp.body.json THEN UnmarshalError
    ELSE NoError

----------------------------------------------------------------------------
(* actions packages: the business functions handed to the dispatch helper *)

Actions == {"projects.list", "issues.create", "issues.delete", "issues.comment"}

\* a variant that takes the text of a value of any type
StringOf_AnyType(body, k) ==
    IF k \in DOMAIN body THEN body[k].v ELSE ""

\* v, _ := body[k].(string)
StringOf(body, k) ==
    IF k \in DOMAIN body /\ body[k].t = "str" THEN body[k].v ELSE ""

\* the map under body[k], when there is one
ObjectOf(body, k) ==
    IF k \in DOMAIN body /\ body[k].t = "obj" THEN body[k].v ELSE EmptyMap

\* ds, ok := body[k].(bool)
BoolOf(body, k) == k \in DOMAIN body /\ body[k].t = "bool" /\ body[k].v = "true"

\* additionalFields as the handlers collect it: the object under
\* "additionalFields", then every other field off the known list that is
\* neither nil nor ""
ExtraFields(body, knownFields) ==
    MergeNonEmpty(ObjectOf(body, "additionalFields"),
                  [k \in DOMAIN body \ knownFields |-> body[k]])

CreateKnownFields ==
    {"projectKey", "issueType", "summary", "description", "additionalFields"}
CommentKnownFields == {"issueKey", "commentBody", "visibility", "additionalFields"}

ValidationError(text) == [error |-> "validation_error", message |-> <<text>>]

\* the handlers' required-field checks: the validation_error result, or
\* EmptyMap when the body passes
Validate(action, body) ==
    IF action = "issues.create" THEN
        IF StringOf(body, "projectKey") = "" THEN ValidationError("Project key is required")
        ELSE IF StringOf(body, "issueType") = "" THEN ValidationError("Issue type is required")
        ELSE IF StringOf(body, "summary") = "" THEN ValidationError("Summary is required")
        ELSE EmptyMap
    ELSE IF action = "issues.delete" THEN
        IF StringOf(body, "issueKey") = ""
        THEN ValidationError("Issue key or ID is required")
        ELSE EmptyMap
    ELSE IF action = "issues.comment" THEN
        IF StringOf(body, "issueKey") = "" THEN ValidationError("Issue key or ID is required")
        ELSE IF StringOf(body, "commentBody") = "" THEN ValidationError("Comment body is required")
        ELSE EmptyMap
    ELSE EmptyMap

\* the request the handler's client method makes once the body passed
ClientRequest(action, creds, body) ==
    IF action = "issues.create" THEN
        makeRequest(creds, "POST", <<"/rest/api/2/issue">>,
            [fields |-> Obj(CreateIssueFields(
                StringOf(body, "projectKey"), StringOf(body, "issueType"),
                StringOf(body, "summary"), StringOf(body, "description"),
                ExtraFields(body, CreateKnownFields)))])
    ELSE IF action = "issues.delete" THEN
        makeRequest(creds, "DELETE",
            DeleteEndpoint(StringOf(body, "issueKey"), BoolOf(body, "deleteSubtasks")),
            EmptyMap)
    ELSE IF action = "issues.comment" THEN
        makeRequest(creds, "POST",
            <<"/rest/api/2/issue/", StringOf(body, "issueKey"), "/comment">>,
            AddCommentBody(StringOf(body, "commentBody"),
                           ObjectOf(body, "visibility"),
                           ExtraFields(body, CommentKnownFields)))
    ELSE makeRequest(creds, "GET", <<"/rest/api/2/project">>, EmptyMap)

\* the error the client method returns for the exchange's outcome
ClientError(action, resp) ==
    IF action = "issues.create" THEN CreateIssueResult(resp)
    ELSE IF action = "issues.delete" THEN DeleteIssueResult(resp)
    ELSE IF action = "issues.comment" THEN AddCommentResult(resp)
    ELSE ListProjectsResult(resp)

\* fmt.Sprintf("%v", err)
ErrorText(err) ==
    IF err.kind = "api"
    THEN <<"Jira API error (status ", err.status, "): ">> \o err.parts
    ELSE err.parts

FailedTo(action) ==
    IF action = "issues.create" THEN "Failed to create issue: "
    ELSE IF action = "issues.delete" THEN "Failed to delete issue: "
    ELSE IF action = "issues.comment" THEN "Failed to add comment: "
    ELSE "Failed to fetch projects: "

\* the result mapping the handler returns once the client method returned
HandlerResult(action, body, resp) ==
    LET err == ClientError(action, resp)
    IN IF err.kind # "nil"
       THEN [error |-> "jira_api_error",
             message |-> <<FailedTo(action)>> \o ErrorText(err)]
       ELSE [result |-> "success", action |-> action,
             issueKey |-> StringOf(body, "issueKey"), payload |-> resp.body.text]

----------------------------------------------------------------------------
(* Messages *)

Data(kind, val) == [kind |-> kind, val |-> val]
DataEmpty == Data("empty", EmptyMap)
DataMalformed == Data("malformed", EmptyMap)

\* sonic.Unmarshal(msg.Data, &onboardingData), onboardingData a map[string]any
UnmarshalMap(data) ==
    IF data.kind = "json" THEN [err |-> FALSE, val |-> data.val]
    ELSE [err |-> TRUE, val |-> EmptyMap]

\* a variant without the len(msg.Data) > 0 test: no payload fails to decode
DecodeRequest_NoEmptyCheck(data) ==
    IF data.kind # "json" THEN [err |-> TRUE, body |-> EmptyMap]
    ELSE IF "body" \in DOMAIN data.val /\ data.val["body"].t = "obj"
         THEN [err |-> FALSE, body |-> data.val["body"].v]
         ELSE [err |-> FALSE, body |-> EmptyMap]

\* the dispatch helper's decoding: no payload gives the empty body; else
\* sonic.Unmarshal(msg.Data, &requestData), and requestData.Body when not nil
DecodeRequest(data) ==
    IF data.kind = "empty" THEN [err |-> FALSE, body |-> EmptyMap]
    ELSE IF data.kind # "json" THEN [err |-> TRUE, body |-> EmptyMap]
    ELSE IF "body" \in DOMAIN data.val /\ data.val["body"].t = "obj"
         THEN [err |-> FALSE, body |-> data.val["body"].v]
         ELSE [err |-> FALSE, body |-> EmptyMap]

\* a variant that formats a value of any type as a string
getStringValue_AnyType(m, key) ==
    IF key \in DOMAIN m /\ m[key].t # "null" THEN m[key].v ELSE ""

\* getStringValue
getStringValue(m, key) ==
    IF key \in DOMAIN m /\ m[key].t = "str" THEN m[key].v ELSE ""

SubjectS1 == <<"soren", "cpu", "bin", "S1", "plg">>
SubjectS2 == <<"soren", "cpu", "bin", "S2", "plg">>
SubjectNone == <<"soren", "cpu", "plg">>
Subjects == {SubjectS1, SubjectNone}

Onboarding1 ==
    Data("json", [instanceUrl |-> Str("https://x.atlassian.net"),
                  email |-> Str("a@b.com"), apiToken |-> Str("tok")])
Onboarding2 ==
    Data("json", [instanceUrl |-> Str("https://y.atlassian.net/"),
                  email |-> Str("c@d.com"), apiToken |-> Str("tok2")])
OnboardingNoToken ==
    Data("json", [instanceUrl |-> Str("https://x.atlassian.net"),
                  email |-> Str("a@b.com")])
OnboardingEmptyEmail ==
    Data("json", [instanceUrl |-> Str("https://x.atlassian.net"),
                  email |-> Str(""), apiToken |-> Str("tok")])
OnboardingNumericUrl ==
    Data("json", [instanceUrl |-> Num("42"),
                  email |-> Str("a@b.com"), apiToken |-> Str("tok")])
OnboardingData ==
    {Onboarding1, Onboarding2, OnboardingNoToken, OnboardingEmptyEmail,
     OnboardingNumericUrl, DataMalformed}

CreateBody == [projectKey |-> Str("P"), issueType |-> Str("Task"), summary |-> Str("s")]
CreateBodyNoSummary == [projectKey |-> Str("P"), issueType |-> Str("Task")]
Envelope(body) == Data("json", [body |-> Obj(body)])
EnvelopeNoBody == Data("json", [_registry |-> Null])
ActionData == {DataEmpty, DataMalformed, Envelope(CreateBody), EnvelopeNoBody}

\* the outcomes of the HTTP exchange
IssueBody == [json |-> TRUE, text |-> <<"{\"id\":\"10001\",\"key\":\"P-1\"}">>,
              errorMessages |-> <<>>, errors |-> <<>>]
JiraErrorBody ==
    [json |-> TRUE,
     text |-> <<"{\"errorMessages\":[\"", "bad", "\"],\"errors\":{\"", "summary",
                "\":\"", "required", "\"}}">>,
     errorMessages |-> <<"bad">>, errors |-> <<<<"summary", "required">>>>]
GarbageBody == [json |-> FALSE, text |-> <<"<html>oops</html>">>,
                errorMessages |-> <<>>, errors |-> <<>>]
NoPartsBody == [json |-> TRUE, text |-> <<"{}">>,
                errorMessages |-> <<>>, errors |-> <<>>]
Responses ==
    {NetErr, Response("200", IssueBody), Response("201", IssueBody),
     Response("400", JiraErrorBody)}

----------------------------------------------------------------------------
(* The handlers.  Message n is handled by a unit of execution of its own;   *)
(* messages are delivered in the order of their numbers, at any time.       *)

LocInit == [spaceID |-> "", creds |-> NoCreds, body |-> EmptyMap,
            allCreds |-> EmptyMap, result |-> EmptyMap, jobID |-> 0]

NoMsg == [handler |-> "none", proto |-> "direct", subject |-> <<>>,
          data |-> DataEmpty]

Deliverable(n) == pc[n] = "idle" /\ \A k \in 1..(n - 1) : pc[k] # "idle"

\* message n is m; its handler answers r at once and returns
Answer(n, m, r) ==
    /\ msg' = [msg EXCEPT ![n] = m]
    /\ pc' = [pc EXCEPT ![n] = "done"]
    /\ replies' = [replies EXCEPT ![n] = <<r>>]
    /\ UNCHANGED loc

\* message n is m; its handler goes on at `at` with the locals l
Proceed(n, m, at, l) ==
    /\ msg' = [msg EXCEPT ![n] = m]
    /\ pc' = [pc EXCEPT ![n] = at]
    /\ loc' = [loc EXCEPT ![n] = l]
    /\ UNCHANGED replies

\* the handler of message n answers r and returns: msg.Respond(response), or
\* sdkv2.RejectWithBody(msg, body) in the job version, which answers with body
Finish(n, r) ==
    /\ pc' = [pc EXCEPT ![n] = "done"]
    /\ loc' = [loc EXCEPT ![n] = LocInit]
    /\ replies' = [replies EXCEPT ![n] = Append(@, r)]

OnboardingError(text) == [status |-> "error", error |-> text]
OnboardingAccepted ==
    [status |-> "accepted", message |-> <<"Credentials saved successfully">>]

\* a variant that rejects a bundle only when all three fields are empty
MissingRequired_AllEmpty(creds) ==
    creds.InstanceURL = "" /\ creds.Email = "" /\ creds.APIToken = ""

\* if creds.InstanceURL == "" || creds.Email == "" || creds.APIToken == ""
MissingRequired(creds) ==
    creds.InstanceURL = "" \/ creds.Email = "" \/ creds.APIToken = ""

\* onboardingHandler up to the call of SaveCredentials
onboardingHandler(n) ==
    /\ Deliverable(n)
    /\ \E subject \in Subjects, data \in OnboardingData :
        LET m == [handler |-> "onboarding", proto |-> "direct",
                  subject |-> subject, data |-> data]
            spaceID == extractSpaceIdFromSubjectMain(subject)
            dec == UnmarshalMap(data)
            creds == JiraCredentials(getStringValue(dec.val, "instanceUrl"),
                                     getStringValue(dec.val, "email"),
                                     getStringValue(dec.val, "apiToken"))
        IN IF dec.err THEN Answer(n, m, OnboardingError("Invalid request data"))
           ELSE IF MissingRequired(creds)
           THEN Answer(n, m, OnboardingError("Missing required fields"))
           ELSE Proceed(n, m, "save_load",
                        [LocInit EXCEPT !.spaceID = spaceID, !.creds = creds])
    /\ UNCHANGED <<file, calls, started, jobs, events, saved, accepted, rt, hd,
                   st, resps, plugin>>

\* SaveCredentials: the load and allCreds[spaceKey] = creds
SaveLoad(n) ==
    /\ pc[n] = "save_load"
    /\ LET c == SaveCollect(file, loc[n].spaceID, loc[n].creds)
       IN IF c.err # "nil"
          THEN Finish(n, OnboardingError("Failed to save credentials"))
          ELSE /\ pc' = [pc EXCEPT ![n] = "save_open"]
               /\ loc' = [loc EXCEPT ![n].allCreds = c.allCreds]
               /\ UNCHANGED replies
    /\ UNCHANGED <<file, msg, calls, started, jobs, events, saved, accepted,
                   rt, hd,
                   st, resps, plugin>>

\* SaveCredentials: os.WriteFile opens the file with O_CREATE|O_TRUNC, or fails
SaveOpen(n) ==
    /\ pc[n] = "save_open"
    /\ \/ /\ file' = FileEmpty
          /\ pc' = [pc EXCEPT ![n] = "save_write"]
          /\ UNCHANGED <<loc, replies>>
       \/ /\ Finish(n, OnboardingError("Failed to save credentials"))
          /\ UNCHANGED file
    /\ UNCHANGED <<msg, calls, started, jobs, events, saved, accepted, rt, hd,
                   st, resps, plugin>>

\* the file after data is written at offset 0 of file f: data alone when f is
\* empty or holds the same text; otherwise f holds what another writer wrote
\* after this writer's truncation, and its tail stays when data is shorter
WriteAt0(f, members) ==
    IF f.state = "empty" \/ f = FileJson(members)
    THEN {FileJson(members)}
    ELSE {FileJson(members), FileTorn}

\* SaveCredentials: os.WriteFile writes the collection; the handler answers
SaveWrite(n) ==
    /\ pc[n] = "save_write"
    /\ file' \in WriteAt0(file, MarshalIndent(loc[n].allCreds))
    /\ saved' = saved \cup {SpaceKey(loc[n].spaceID)}
    /\ accepted' = MapSet(accepted, SpaceKey(loc[n].spaceID), loc[n].creds)
    /\ Finish(n, OnboardingAccepted)
    /\ UNCHANGED <<msg, calls, started, jobs, events, rt, hd, st, resps, plugin>>

\* the intro that the responder returns: plugin.Intro with its meta extended
IntroOf(hasCreds, spaceID) ==
    [name |-> "Jira Plugin", credentialsConfigured |-> hasCreds,
     spaceId |-> spaceID]

\* the callback given to plugin.SetIntroResponder
IntroResponder(n) ==
    /\ Deliverable(n)
    /\ \E subject \in Subjects :
        LET m == [handler |-> "intro", proto |-> "direct", subject |-> subject,
                  data |-> DataEmpty]
            spaceID == extractSpaceIdFromSubjectMain(subject)
        IN Answer(n, m, IntroOf(HasCredentials(file, spaceID), spaceID))
    /\ UNCHANGED <<file, calls, started, jobs, events, saved, accepted, rt, hd,
                   st, resps, plugin>>

----------------------------------------------------------------------------
(* handleActionWithCredentialsCheckSync.  proto "direct" is the version that *)
(* answers with the result; proto "job" is the version that answers with a   *)
(* job handshake and publishes the result with plugin.Done.                  *)

Protos == {"direct", "job"}
DispatchActions == {"projects.list", "issues.create"}

\* the tenant the helper extracts from message m's subject
SpaceOf(m) ==
    IF m.handler \in {"onboarding", "intro"}
    THEN extractSpaceIdFromSubjectMain(m.subject)
    ELSE IF m.proto = "direct" THEN extractSpaceIdFromSubject(m.subject)
    ELSE extractSpaceIdFromSubjectJob(m.subject)

InvalidRequest(proto) ==
    IF proto = "direct"
    THEN [error |-> "Invalid request data", message |-> <<"Failed to parse request">>]
    ELSE [error |-> "invalid_request", message |-> <<"Failed to parse request">>]

\* a variant that reports the key of the store in place of the tenant id
NotConfigured_StoreKey(spaceID, actionName) ==
    [error |-> "credentials_not_configured",
     message |-> IF spaceID = ""
                 THEN <<"Jira credentials not configured.">>
                 ELSE <<"Jira credentials not configured for space ", spaceID>>,
     action |-> actionName, spaceId |-> SpaceKey(spaceID)]

NotConfigured(spaceID, actionName) ==
    [error |-> "credentials_not_configured",
     message |-> IF spaceID = ""
                 THEN <<"Jira credentials not configured.">>
                 ELSE <<"Jira credentials not configured for space ", spaceID>>,
     action |-> actionName, spaceId |-> spaceID]

CredentialsError(err) ==
    [error |-> "credentials_error",
     message |-> <<"Failed to retrieve credentials: ", err>>]

InternalError ==
    [error |-> "internal_error", message |-> <<"Failed to serialize response">>]

\* uuid.New().String(): an identifier that no other call returns; the call
\* made for message n returns n
NewUUID(n) == n

\* plugin.StoreEntityIdForJob(jobID, spaceID) on the association j
StoreEntityIdForJob(j, jobID, entityID) ==
    [k \in DOMAIN j \cup {jobID} |-> IF k = jobID THEN entityID ELSE j[k]]

\* sonic.Marshal succeeds on a mapping of strings, numbers and mappings, which
\* is all the handlers return
MarshalOK(result) == TRUE

\* a variant that consults the store before it decodes the payload
Decode_StoreFirst(n) ==
    /\ Deliverable(n)
    /\ \E action \in DispatchActions, proto \in Protos, subject \in Subjects,
          data \in ActionData :
        LET m == [handler |-> action, proto |-> proto, subject |-> subject,
                  data |-> data]
            dec == DecodeRequest(data)
        IN IF ~HasCredentials(file, SpaceOf(m))
           THEN Answer(n, m, NotConfigured(SpaceOf(m), action))
           ELSE IF dec.err THEN Answer(n, m, InvalidRequest(proto))
           ELSE Proceed(n, m, "has",
                        [LocInit EXCEPT !.spaceID = SpaceOf(m), !.body = dec.body])
    /\ UNCHANGED <<file, calls, started, jobs, events, saved, accepted, rt, hd,
                   st, resps, plugin>>

\* the helper up to the decoding of the payload
Decode(n) ==
    /\ Deliverable(n)
    /\ \E action \in DispatchActions, proto \in Protos, subject \in Subjects,
          data \in ActionData :
        LET m == [handler |-> action, proto |-> proto, subject |-> subject,
                  data |-> data]
            dec == DecodeRequest(data)
        IN IF dec.err THEN Answer(n, m, InvalidRequest(proto))
           ELSE Proceed(n, m, "has",
                        [LocInit EXCEPT !.spaceID = SpaceOf(m), !.body = dec.body])
    /\ UNCHANGED <<file, calls, started, jobs, events, saved, accepted, rt, hd,
                   st, resps, plugin>>

\* a variant of the job version that records the job before the check
CheckCredentials_StoresJob(n) ==
    /\ pc[n] = "has"
    /\ jobs' = IF msg[n].proto = "job" /\ plugin
               THEN StoreEntityIdForJob(jobs, NewUUID(n), loc[n].spaceID)
               ELSE jobs
    /\ IF ~HasCredentials(file, loc[n].spaceID)
       THEN Finish(n, NotConfigured(loc[n].spaceID, msg[n].handler))
       ELSE /\ pc' = [pc EXCEPT ![n] = "get"]
            /\ UNCHANGED <<loc, replies>>
    /\ UNCHANGED <<file, msg, calls, started, events, saved, accepted,
                   rt, hd, st, resps, plugin>>

\* if !credsStorage.HasCredentials(spaceID) { ... return }
CheckCredentials(n) ==
    /\ pc[n] = "has"
    /\ IF ~HasCredentials(file, loc[n].spaceID)
       THEN Finish(n, NotConfigured(loc[n].spaceID, msg[n].handler))
       ELSE /\ pc' = [pc EXCEPT ![n] = "get"]
            /\ UNCHANGED <<loc, replies>>
    /\ UNCHANGED <<file, msg, calls, started, jobs, events, saved, accepted,
                   rt, hd,
                   st, resps, plugin>>

\* a variant that goes on with the bundle it got, whatever the error
FetchCredentials_IgnoreError(n) ==
    /\ pc[n] = "get"
    /\ LET g == GetCredentials(file, loc[n].spaceID)
       IN /\ pc' = [pc EXCEPT ![n] =
                        IF msg[n].proto = "direct" THEN "exec" ELSE "ack"]
          /\ loc' = [loc EXCEPT ![n].creds = g.creds]
          /\ UNCHANGED replies
    /\ UNCHANGED <<file, msg, calls, started, jobs, events, saved, accepted,
                   rt, hd, st, resps, plugin>>

\* creds, err := credsStorage.GetCredentials(spaceID)
FetchCredentials(n) ==
    /\ pc[n] = "get"
    /\ LET g == GetCredentials(file, loc[n].spaceID)
       IN IF g.err # "nil"
          THEN Finish(n, CredentialsError(g.err))
          ELSE /\ pc' = [pc EXCEPT ![n] =
                            IF msg[n].proto = "direct" THEN "exec" ELSE "ack"]
               /\ loc' = [loc EXCEPT ![n].creds = g.creds]
               /\ UNCHANGED replies
    /\ UNCHANGED <<file, msg, calls, started, jobs, events, saved, accepted,
                   rt, hd,
                   st, resps, plugin>>

\* a variant that stores the job but answers no acknowledgment
Handshake_NoAck(n) ==
    /\ pc[n] = "ack"
    /\ LET jobID == NewUUID(n)
       IN /\ jobs' = IF plugin
                     THEN StoreEntityIdForJob(jobs, jobID, loc[n].spaceID)
                     ELSE jobs
          /\ loc' = [loc EXCEPT ![n].jobID = jobID]
    /\ pc' = [pc EXCEPT ![n] = "exec"]
    /\ UNCHANGED <<file, msg, calls, started, events, saved, accepted, rt, hd,
                   replies,
                   st, resps, plugin>>

\* the job version's handshake: a fresh job id, its entity id stored when
\* the plugin instance is found, the acknowledgment answered
Handshake(n) ==
    /\ pc[n] = "ack"
    /\ LET jobID == NewUUID(n)
           initResponse == [jobId |-> jobID, progress |-> 0]
       IN /\ jobs' = IF plugin
                     THEN StoreEntityIdForJob(jobs, jobID, loc[n].spaceID)
                     ELSE jobs
          /\ loc' = [loc EXCEPT ![n].jobID = jobID]
          /\ replies' = [replies EXCEPT ![n] = Append(@, initResponse)]
    /\ pc' = [pc EXCEPT ![n] = "exec"]
    /\ UNCHANGED <<file, msg, calls, started, events, saved, accepted, rt, hd,
                   st, resps, plugin>>

\* result := actionFunc(creds, body), up to the client's HTTP request: the
\* required fields are checked, and the request is made when they pass
Execute(n) ==
    /\ pc[n] = "exec"
    /\ started' = [started EXCEPT ![n] = @ + 1]
    /\ LET invalid == Validate(msg[n].handler, loc[n].body)
       IN IF invalid # EmptyMap
          THEN /\ loc' = [loc EXCEPT ![n].result = invalid]
               /\ UNCHANGED calls
          ELSE /\ calls' = [calls EXCEPT ![n] = Append(@,
                                ClientRequest(msg[n].handler, loc[n].creds,
                                              loc[n].body))]
               /\ UNCHANGED loc
    /\ pc' = [pc EXCEPT ![n] = "return"]
    /\ UNCHANGED <<file, msg, replies, jobs, events, saved, accepted, rt, hd,
                   st, resps, plugin>>

\* a variant of the job version that also answers with the result
Deliver_AlsoAnswers(n, result) ==
    /\ Finish(n, IF MarshalOK(result) THEN result ELSE InternalError)
    /\ IF msg[n].proto = "direct" \/ ~plugin
       THEN UNCHANGED events
       ELSE events' = Append(events, [jobId |-> loc[n].jobID, result |-> result])

\* a variant of the job version that publishes the result twice
Deliver_Twice(n, result) ==
    IF msg[n].proto = "direct"
    THEN /\ Finish(n, IF MarshalOK(result) THEN result ELSE InternalError)
         /\ UNCHANGED events
    ELSE /\ events' = IF plugin
                       THEN events \o <<[jobId |-> loc[n].jobID, result |-> result],
                                        [jobId |-> loc[n].jobID, result |-> result]>>
                       ELSE events
         /\ pc' = [pc EXCEPT ![n] = "done"]
         /\ loc' = [loc EXCEPT ![n] = LocInit]
         /\ UNCHANGED replies

\* the result is delivered: answered (direct), or published with plugin.Done
\* (job); the job version only logs when it finds no plugin instance
Deliver(n, result) ==
    IF msg[n].proto = "direct"
    THEN /\ Finish(n, IF MarshalOK(result) THEN result ELSE InternalError)
         /\ UNCHANGED events
    ELSE /\ events' = IF plugin
                       THEN Append(events, [jobId |-> loc[n].jobID,
                                            result |-> result])
                       ELSE events
         /\ pc' = [pc EXCEPT ![n] = "done"]
         /\ loc' = [loc EXCEPT ![n] = LocInit]
         /\ UNCHANGED replies

\* a variant that makes the request once more after a network failure
Return_Retry(n) ==
    /\ pc[n] = "return"
    /\ IF calls[n] = <<>>
       THEN Deliver(n, loc[n].result) /\ UNCHANGED resps
       ELSE \E resp \in Responses :
                /\ resps' = [resps EXCEPT ![n] = Append(@, resp)]
                /\ IF resp.neterr /\ Len(calls[n]) < 2
                   THEN /\ pc' = [pc EXCEPT ![n] = "exec"]
                        /\ UNCHANGED <<loc, replies, events>>
                   ELSE Deliver(n, HandlerResult(msg[n].handler, loc[n].body,
                                                 resp))
    /\ UNCHANGED <<file, msg, calls, started, jobs, saved, accepted, rt, hd,
                   st, plugin>>

\* a variant that delivers a result with an error tag as an internal error
Return_WrapErrors(n) ==
    /\ pc[n] = "return"
    /\ IF calls[n] = <<>>
       THEN /\ Deliver(n, IF "error" \in DOMAIN loc[n].result
                           THEN InternalError ELSE loc[n].result)
            /\ UNCHANGED resps
       ELSE \E resp \in Responses :
                LET r == HandlerResult(msg[n].handler, loc[n].body, resp)
                IN /\ Deliver(n, IF "error" \in DOMAIN r THEN InternalError ELSE r)
                   /\ resps' = [resps EXCEPT ![n] = Append(@, resp)]
    /\ UNCHANGED <<file, msg, calls, started, jobs, saved, accepted, rt, hd,
                   st, plugin>>

\* actionFunc returns, after the HTTP exchange when it made a request, and the
\* helper delivers its result
Return(n) ==
    /\ pc[n] = "return"
    /\ IF calls[n] = <<>>
       THEN Deliver(n, loc[n].result) /\ UNCHANGED resps
       ELSE \E resp \in Responses :
                /\ Deliver(n, HandlerResult(msg[n].handler, loc[n].body, resp))
                /\ resps' = [resps EXCEPT ![n] = Append(@, resp)]
    /\ UNCHANGED <<file, msg, calls, started, jobs, saved, accepted, rt, hd,
                   st, plugin>>

----------------------------------------------------------------------------
(* The system *)

RtOff == [phase |-> "off", subject |-> <<>>, main |-> "", issues |-> "", job |-> ""]
HdOff == [phase |-> "off", action |-> "", body |-> EmptyMap, result |-> EmptyMap,
          calls |-> <<>>, resp |-> NetErr, err |-> NoError]

\* a bundle stored in an earlier run of the plugin
StOff == [n |-> 0, op |-> "none", spaceID |-> "", creds |-> NoCreds,
          before |-> FileMissing, err |-> "nil", bundle |-> NoCreds,
          spaces |-> {}, has |-> FALSE]

Stored1 == JiraCredentials("https://x.atlassian.net", "a@b.com", "tok")
StoresAtStart == {EmptyMap, [S1 |-> Stored1]}

Init ==
    /\ \E allCreds \in StoresAtStart :
        /\ file = IF allCreds = EmptyMap THEN FileMissing
                  ELSE FileJson(MarshalIndent(allCreds))
        /\ saved = DOMAIN allCreds
        /\ accepted = allCreds
    /\ pc = [n \in Msgs |-> "idle"]
    /\ msg = [n \in Msgs |-> NoMsg]
    /\ loc = [n \in Msgs |-> LocInit]
    /\ replies = [n \in Msgs |-> <<>>]
    /\ calls = [n \in Msgs |-> <<>>]
    /\ started = [n \in Msgs |-> 0]
    /\ jobs = <<>>
    /\ events = <<>>
    /\ rt = RtOff
    /\ hd = HdOff
    /\ st = StOff
    /\ resps = [n \in Msgs |-> <<>>]
    /\ plugin \in BOOLEAN

Step(n) ==
    \/ IntroResponder(n)
    \/ onboardingHandler(n)
    \/ SaveLoad(n)
    \/ SaveOpen(n)
    \/ SaveWrite(n)
    \/ Decode(n)
    \/ CheckCredentials(n)
    \/ FetchCredentials(n)
    \/ Handshake(n)
    \/ Execute(n)
    \/ Return(n)

Next == \E n \in Msgs : Step(n)

\* the plugin, its handlers running concurrently
Spec == Init /\ [][Next]_vars

\* the steps of the handler of message n after the delivery of the message
Run(n) ==
    \/ SaveLoad(n)
    \/ SaveOpen(n)
    \/ SaveWrite(n)
    \/ CheckCredentials(n)
    \/ FetchCredentials(n)
    \/ Handshake(n)
    \/ Execute(n)
    \/ Return(n)

\* the plugin when every handler that can take a step takes one in the end:
\* each handler runs in a goroutine of its own, the reads and writes of the
\* file return, time.Sleep returns, and the HTTP exchange returns or fails
\* within the client's Timeout of 30 seconds
SpecLive == Init /\ [][Next]_vars /\ \A n \in Msgs : WF_vars(Run(n))

\* a handler runs only while no other is running
Alone(n) == \A k \in Msgs \ {n} : pc[k] \in {"idle", "done"}

NextSeq ==
    \E n \in Msgs :
        \/ Alone(n) /\ IntroResponder(n)
        \/ Alone(n) /\ onboardingHandler(n)
        \/ Alone(n) /\ SaveLoad(n)
        \/ Alone(n) /\ SaveOpen(n)
        \/ Alone(n) /\ SaveWrite(n)
        \/ Alone(n) /\ Decode(n)
        \/ Alone(n) /\ CheckCredentials(n)
        \/ Alone(n) /\ FetchCredentials(n)
        \/ Alone(n) /\ Handshake(n)
        \/ Alone(n) /\ Execute(n)
        \/ Alone(n) /\ Return(n)

\* the plugin, its messages handled one after the other
SpecSeq == Init /\ [][NextSeq]_vars

----------------------------------------------------------------------------
(* The topic router alone, on every subject of up to MaxSegs segments *)

Segments == {"", "bin", "a", "T"}
RouterSubjects ==
    UNION {[1..k -> Segments] : k \in 1..MaxSegs}
        \cup {<<"a", "bin", "T", "rest">>, <<"a", "b", "c">>, <<"x", "bin">>}

\* no message is delivered
NoMessages ==
    /\ saved = {}
    /\ accepted = EmptyMap
    /\ resps = [n \in Msgs |-> <<>>]
    /\ pc = [n \in Msgs |-> "idle"]
    /\ msg = [n \in Msgs |-> NoMsg]
    /\ loc = [n \in Msgs |-> LocInit]
    /\ replies = [n \in Msgs |-> <<>>]
    /\ calls = [n \in Msgs |-> <<>>]
    /\ started = [n \in Msgs |-> 0]
    /\ jobs = <<>>
    /\ events = <<>>
    /\ plugin = TRUE

InitOff ==
    /\ file = FileMissing
    /\ st = StOff
    /\ NoMessages

InitRouter ==
    /\ InitOff
    /\ hd = HdOff
    /\ \E subject \in RouterSubjects : rt = [RtOff EXCEPT !.phase = "in",
                                                          !.subject = subject]

Route ==
    /\ rt.phase = "in"
    /\ rt' = [rt EXCEPT !.phase = "out",
                        !.main = extractSpaceIdFromSubjectMain(rt.subject),
                        !.issues = extractSpaceIdFromSubject(rt.subject),
                        !.job = extractSpaceIdFromSubjectJob(rt.subject)]
    /\ UNCHANGED <<file, pc, msg, loc, replies, calls, started, jobs, events,
                   saved, accepted, hd,
                   st, resps, plugin>>

SpecRouter == InitRouter /\ [][Route]_vars

----------------------------------------------------------------------------
(* A business function alone, on every body over the required fields *)

Absent == [t |-> "absent", v |-> ""]
FieldValues == {Absent, Str(""), Num("42"), Str("v")}
BodyFields == {"projectKey", "issueType", "summary", "issueKey", "commentBody"}
\* bodies of issues.create with an additionalFields object, and with fields
\* off the handler's known list
ExtraBodies ==
    {[CreateBody EXCEPT !.summary = Str("s")] @@ extra :
        extra \in {[additionalFields |-> Obj([summary |-> Str("other")])],
                   [additionalFields |-> Obj([duedate |-> Str("2026-12-01"),
                                              assignee |-> Null,
                                              labels |-> Str("")])],
                   [project |-> Obj([key |-> Str("Q")])],
                   [priority |-> Str(""), duedate |-> Str("2026-12-01")]}}
HandlerBodies ==
    {[f \in {g \in BodyFields : c[g] # Absent} |-> c[f]] :
        c \in [BodyFields -> FieldValues]} \cup ExtraBodies
AllResponses ==
    {NetErr} \cup
    {Response(code, b) : code \in {"200", "201", "204", "400", "500"},
                       b \in {IssueBody, JiraErrorBody, GarbageBody, NoPartsBody}}

InitHandler ==
    /\ InitOff
    /\ rt = RtOff
    /\ \E action \in Actions, body \in HandlerBodies :
        hd = [HdOff EXCEPT !.phase = "in", !.action = action, !.body = body]

\* actionFunc(creds, body) up to the client's HTTP request
Invoke ==
    /\ hd.phase = "in"
    /\ LET invalid == Validate(hd.action, hd.body)
       IN IF invalid # EmptyMap
          THEN hd' = [hd EXCEPT !.phase = "returned", !.result = invalid]
          ELSE hd' = [hd EXCEPT !.phase = "called",
                        !.calls = <<ClientRequest(hd.action, Stored1, hd.body)>>]
    /\ UNCHANGED <<file, pc, msg, loc, replies, calls, started, jobs, events,
                   saved, accepted, rt,
                   st, resps, plugin>>

\* actionFunc returns after the HTTP exchange
Returned ==
    /\ hd.phase = "called"
    /\ \E resp \in AllResponses :
        hd' = [hd EXCEPT !.phase = "returned",
                         !.resp = resp,
                         !.err = ClientError(hd.action, resp),
                         !.result = HandlerResult(hd.action, hd.body, resp)]
    /\ UNCHANGED <<file, pc, msg, loc, replies, calls, started, jobs, events,
                   saved, accepted, rt,
                   st, resps, plugin>>

NextHandler == Invoke \/ Returned

SpecHandler == InitHandler /\ [][NextHandler]_vars

----------------------------------------------------------------------------
(* The credential store alone: calls of SaveCredentials, GetCredentials,    *)
(* HasCredentials and GetAllSpaces made one after the other, on every file  *)
(* the store can find at its path                                           *)

\* calls made in one behaviour
MaxCalls == 2

StoreIds == {"", "default", "S1"}
Stored2 == JiraCredentials("https://y.atlassian.net/", "c@d.com", "tok2")
\* a bundle with empty fields: SaveCredentials does not look at the fields
UrlOnly == JiraCredentials("https://z.atlassian.net", "", "")
Bundles == {Stored1, Stored2, UrlOnly}
Collections ==
    UNION {[keys -> {Stored1, Stored2}] : keys \in SUBSET {"default", "S1"}}
FilesAtStart ==
    {FileMissing, FileEmpty, FileTorn, FileUnreadable}
        \cup {FileJson(MarshalIndent(c)) : c \in Collections \ {EmptyMap}}

InitStore ==
    /\ file \in FilesAtStart
    /\ st = StOff
    /\ rt = RtOff
    /\ hd = HdOff
    /\ NoMessages

\* the frame of a call on the store
StoreCall(op, spaceID) ==
    [StOff EXCEPT !.n = st.n + 1, !.op = op, !.spaceID = spaceID,
                  !.before = file]

\* SaveCredentials(spaceID, creds) with no other writer: the load, then
\* os.WriteFile, which fails at its open or writes the whole collection
StoreSave ==
    /\ st.n < MaxCalls
    /\ \E spaceID \in StoreIds, creds \in Bundles :
        LET c == SaveCollect(file, spaceID, creds)
            call == [StoreCall("save", spaceID) EXCEPT !.creds = creds]
        IN IF c.err # "nil"
           THEN /\ st' = [call EXCEPT !.err = c.err]
                /\ UNCHANGED file
           ELSE \/ /\ file' \in WriteAt0(FileEmpty, MarshalIndent(c.allCreds))
                   /\ st' = call
                \/ /\ UNCHANGED file
                   /\ st' = [call EXCEPT !.err = "write"]
    /\ UNCHANGED <<pc, msg, loc, replies, calls, started, jobs, events, saved,
                   accepted, rt, hd, resps, plugin>>

\* a variant that creates the file with an empty collection when it is missing
StoreGet_CreatesFile ==
    /\ st.n < MaxCalls
    /\ \E spaceID \in StoreIds :
        LET g == GetCredentials(file, spaceID)
        IN st' = [StoreCall("get", spaceID) EXCEPT !.err = g.err,
                                                    !.bundle = g.creds]
    /\ file' = IF file = FileMissing THEN FileJson(MarshalIndent(EmptyMap))
               ELSE file
    /\ UNCHANGED <<pc, msg, loc, replies, calls, started, jobs, events,
                   saved, accepted, rt, hd, resps, plugin>>

StoreGet ==
    /\ st.n < MaxCalls
    /\ \E spaceID \in StoreIds :
        LET g == GetCredentials(file, spaceID)
        IN st' = [StoreCall("get", spaceID) EXCEPT !.err = g.err,
                                                    !.bundle = g.creds]
    /\ UNCHANGED <<file, pc, msg, loc, replies, calls, started, jobs, events,
                   saved, accepted, rt, hd, resps, plugin>>

StoreHas ==
    /\ st.n < MaxCalls
    /\ \E spaceID \in StoreIds :
        st' = [StoreCall("has", spaceID) EXCEPT
                    !.has = HasCredentials(file, spaceID)]
    /\ UNCHANGED <<file, pc, msg, loc, replies, calls, started, jobs, events,
                   saved, accepted, rt, hd, resps, plugin>>

StoreList ==
    /\ st.n < MaxCalls
    /\ LET l == GetAllSpaces(file)
       IN st' = [StoreCall("list", "") EXCEPT !.err = l.err,
                                              !.spaces = l.spaces]
    /\ UNCHANGED <<file, pc, msg, loc, replies, calls, started, jobs, events,
                   saved, accepted, rt, hd, resps, plugin>>

NextStore == StoreSave \/ StoreGet \/ StoreHas \/ StoreList

SpecStore == InitStore /\ [][NextStore]_vars

\* the plugin, its handlers running concurrently, with the read methods of the
\* store called at any time besides
NextReads == Next \/ StoreGet \/ StoreHas \/ StoreList

SpecReads == Init /\ [][NextReads]_vars

----------------------------------------------------------------------------
(* Properties *)

IsAction(n) == msg[n].handler \in Actions
IsOnboarding(n) == msg[n].handler = "onboarding"
KeyOf(n) == SpaceKey(SpaceOf(msg[n]))
TenantIds == {"", "S1", "S2", "default"}

\* C1, as claimed: a dispatch whose tenant key was never written to the
\* collection never invokes the business function, makes no HTTP request, and
\* ends by answering credentials_not_configured.
C1_UnconfiguredAlwaysNotConfigured ==
    \A n \in Msgs :
        (IsAction(n) /\ KeyOf(n) \notin saved) =>
            /\ started[n] = 0
            /\ calls[n] = <<>>
            /\ pc[n] = "done" =>
                replies[n] = <<NotConfigured(SpaceOf(msg[n]), msg[n].handler)>>

\* C1, amended: a dispatch whose tenant key was never written to the
\* collection never invokes the business function and makes no HTTP request;
\* it ends by answering the invalid-request error when its payload is not
\* empty and fails to decode, and credentials_not_configured otherwise.
C1_UnconfiguredNeverExecutes ==
    \A n \in Msgs :
        (IsAction(n) /\ KeyOf(n) \notin saved) =>
            /\ started[n] = 0
            /\ calls[n] = <<>>
            /\ pc[n] = "done" =>
                replies[n] =
                    IF DecodeRequest(msg[n].data).err
                    THEN <<InvalidRequest(msg[n].proto)>>
                    ELSE <<NotConfigured(SpaceOf(msg[n]), msg[n].handler)>>

C1_Witness ==
    \E n \in Msgs :
        /\ IsAction(n) /\ msg[n].proto = "job" /\ pc[n] = "done"
        /\ KeyOf(n) \notin saved
        /\ msg[n].data = Envelope(CreateBody)
        /\ replies[n] = <<NotConfigured(SpaceOf(msg[n]), msg[n].handler)>>

HasAck(n) ==
    /\ Len(replies[n]) = 1
    /\ DOMAIN replies[n][1] = {"jobId", "progress"}
    /\ replies[n][1].progress = 0

AckedJobs ==
    {replies[n][1].jobId : n \in {k \in Msgs : HasAck(k)}}

\* C2: in the job version, whenever the business function is invoked and
\* whenever a completion event is published, the acknowledgment {jobId,
\* progress: 0} of that job was answered in an earlier step.
C2_AckBeforeFunctionAndCompletion ==
    [][/\ \A n \in Msgs :
            (msg[n].proto = "job" /\ started'[n] > started[n]) =>
                HasAck(n) /\ replies[n][1].jobId = loc[n].jobID
       /\ \A i \in 1..Len(events') :
            i > Len(events) => events'[i].jobId \in AckedJobs]_vars

C2_Witness ==
    \E n \in Msgs :
        /\ msg[n].proto = "job" /\ pc[n] = "done" /\ started[n] = 1
        /\ HasAck(n)
        /\ \E i \in 1..Len(events) : events[i].jobId = replies[n][1].jobId

Saving(n) == pc[n] = "save_write" /\ pc'[n] = "done"

\* C3: when SaveCredentials(T, B) returns nil, GetCredentials(T) on the file it
\* has written returns B, equal in instance URL, email and token.
C3_SaveThenGetRoundTrip ==
    [][\A n \in Msgs :
        Saving(n) =>
            LET got == GetCredentials(file', loc[n].spaceID)
            IN /\ got.err = "nil"
               /\ got.creds.InstanceURL = loc[n].creds.InstanceURL
               /\ got.creds.Email = loc[n].creds.Email
               /\ got.creds.APIToken = loc[n].creds.APIToken]_vars

C3_Witness ==
    \E n \in Msgs :
        /\ IsOnboarding(n) /\ pc[n] = "done"
        /\ msg[n].data = Onboarding2
        /\ replies[n] = <<OnboardingAccepted>>
        /\ GetCredentials(file, SpaceOf(msg[n])) =
               [err |-> "nil",
                creds |-> JiraCredentials("https://y.atlassian.net/", "c@d.com", "tok2")]

NeverSavedAbsent ==
    \A T \in TenantIds : SpaceKey(T) \notin saved => ~HasCredentials(file, T)

\* C4: HasCredentials(T) is false while no save has written T's key, and is
\* true on the file a successful SaveCredentials(T, B) has written.
C4_ExistsIffSaved ==
    /\ NeverSavedAbsent
    /\ [][/\ NeverSavedAbsent'
          /\ \A n \in Msgs :
                Saving(n) => HasCredentials(file', loc[n].spaceID)]_vars

C4_Witness ==
    \E n \in Msgs :
        /\ IsOnboarding(n) /\ pc[n] = "done"
        /\ replies[n] = <<OnboardingAccepted>>
        /\ SpaceOf(msg[n]) = ""
        /\ HasCredentials(file, "") /\ HasCredentials(file, "default")
        /\ "S1" \notin saved /\ ~HasCredentials(file, "S1")

\* C5: a dispatch has answered at most once at any time and exactly once when
\* it has ended, whichever path it took.
C5_ExactlyOneReply ==
    \A n \in Msgs :
        IsAction(n) =>
            /\ Len(replies[n]) <= 1
            /\ pc[n] = "done" => Len(replies[n]) = 1

C5_Witness ==
    \E n \in Msgs :
        /\ IsAction(n) /\ pc[n] = "done"
        /\ Len(replies[n]) = 1
        /\ replies[n][1] = CredentialsError("unmarshal")

InSave(n) == pc[n] \in {"save_open", "save_write"}

\* C6, as claimed: while a save is in progress, every tenant of the collection
\* the save loaded, other than the one being saved, can be read from the file.
C6_ReadersSeeCompleteCollection ==
    \A n \in Msgs :
        InSave(n) =>
            \A k \in DOMAIN loc[n].allCreds \ {SpaceKey(loc[n].spaceID)} :
                GetCredentials(file, k).err = "nil"

\* C7, as claimed: whenever the file holds a complete collection, every tenant
\* key that a save has written is still in it.
C7_BundlesNeverDeleted ==
    file.state = "json" => \A k \in saved : HasCredentials(file, k)

\* the segment after the first "bin" that has a successor, "" without one
AfterFirstBin(subject) ==
    LET bins == {i \in 1..(Len(subject) - 1) : subject[i] = "bin"}
    IN IF bins = {} THEN ""
       ELSE subject[(CHOOSE i \in bins : \A j \in bins : i <= j) + 1]

\* C8: the router yields, on every subject, the segment immediately after the
\* first "bin" segment and "" when there is none or "bin" is last: "T" on
\* a.bin.T.rest, "" on a.b.c and on x.bin; its three copies agree.
C8_RouterFirstBin ==
    rt.phase = "out" =>
        /\ rt.issues = AfterFirstBin(rt.subject)
        /\ rt.main = rt.issues /\ rt.job = rt.issues
        /\ rt.subject = <<"a", "bin", "T", "rest">> => rt.issues = "T"
        /\ rt.subject = <<"a", "b", "c">> => rt.issues = ""
        /\ rt.subject = <<"x", "bin">> => rt.issues = ""

C8_Witness ==
    /\ rt.phase = "out"
    /\ rt.subject = <<"a", "bin", "T", "rest">>
    /\ rt.main = "T" /\ rt.issues = "T" /\ rt.job = "T"

Latest(n) == \A k \in Msgs : k > n => pc[k] = "idle"

ValidCreate(n) ==
    /\ msg[n].handler = "issues.create"
    /\ ~DecodeRequest(msg[n].data).err
    /\ Validate("issues.create", DecodeRequest(msg[n].data).body) = EmptyMap

\* C9: with one message handled at a time, once the onboarding of S1 has
\* answered accepted HasCredentials(S1) is true, and an issues.create for S1
\* with valid fields that has ended has invoked the business function once and
\* made exactly one request, POST /rest/api/2/issue, with the token and the
\* instance URL of the bundle saved for S1.
C9_OnboardThenCreate ==
    \A n \in Msgs :
        /\ (IsOnboarding(n) /\ Latest(n) /\ replies[n] = <<OnboardingAccepted>>)
            => HasCredentials(file, SpaceOf(msg[n]))
        /\ (ValidCreate(n) /\ Latest(n) /\ pc[n] = "done"
                /\ KeyOf(n) \in DOMAIN accepted)
            => /\ started[n] = 1
               /\ Len(calls[n]) = 1
               /\ calls[n][1].method = "POST"
               /\ calls[n][1].endpoint = <<"/rest/api/2/issue">>
               /\ calls[n][1].bearer = accepted[KeyOf(n)].APIToken
               /\ calls[n][1].base = TrimSlash(accepted[KeyOf(n)].InstanceURL)

C9_Witness ==
    /\ IsOnboarding(1) /\ msg[1].data = Onboarding2 /\ SpaceOf(msg[1]) = "S1"
    /\ replies[1] = <<OnboardingAccepted>>
    /\ ValidCreate(2) /\ SpaceOf(msg[2]) = "S1" /\ pc[2] = "done"
    /\ Len(calls[2]) = 1
    /\ calls[2][1].method = "POST" /\ calls[2][1].bearer = "tok2"
    /\ calls[2][1].base = "https://y.atlassian.net"

Required(action) ==
    IF action = "issues.create" THEN {"projectKey", "issueType", "summary"}
    ELSE IF action = "issues.delete" THEN {"issueKey"}
    ELSE IF action = "issues.comment" THEN {"issueKey", "commentBody"}
    ELSE {}

\* field k is missing from the body, is not a string, or is the empty string
Unusable(body, k) ==
    k \notin DOMAIN body \/ body[k].t # "str" \/ body[k].v = ""

\* C10: a create, delete or comment whose body lacks a usable required field
\* makes no request and returns a result whose error is validation_error; a
\* create that lacks only the summary returns exactly {error:
\* validation_error, message: Summary is required}.
C10_RequiredFieldsValidated ==
    /\ (\E k \in Required(hd.action) : Unusable(hd.body, k)) =>
        /\ hd.calls = <<>> /\ hd.phase # "called"
        /\ hd.phase = "returned" =>
            /\ "error" \in DOMAIN hd.result
            /\ hd.result.error = "validation_error"
    /\ (/\ hd.phase = "returned" /\ hd.action = "issues.create"
        /\ ~Unusable(hd.body, "projectKey") /\ ~Unusable(hd.body, "issueType")
        /\ Unusable(hd.body, "summary")) =>
            hd.result = [error |-> "validation_error",
                         message |-> <<"Summary is required">>]

C10_Witness ==
    /\ hd.phase = "returned" /\ hd.action = "issues.create"
    /\ ~Unusable(hd.body, "projectKey") /\ ~Unusable(hd.body, "issueType")
    /\ "summary" \notin DOMAIN hd.body
    /\ hd.calls = <<>>
    /\ hd.result = [error |-> "validation_error",
                    message |-> <<"Summary is required">>]

SavedOk == st.op = "save" /\ st.err = "nil"

\* C11: a SaveCredentials(T, B) that returns nil, with no other writer, leaves
\* a collection whose keys are those before plus T's key, whose entry for T is
\* exactly B, and whose entry for every other key is the one before.
C11_SaveChangesOnlyItsKey ==
    SavedOk =>
        LET before == loadAllCredentials(st.before).allCreds
            after == loadAllCredentials(file)
            key == SpaceKey(st.spaceID)
        IN /\ after.err = "nil"
           /\ DOMAIN after.allCreds = DOMAIN before \cup {key}
           /\ after.allCreds[key] = st.creds
           /\ \A k \in DOMAIN before \ {key} : after.allCreds[k] = before[k]

C11_Witness ==
    /\ SavedOk /\ st.spaceID = "S1" /\ st.creds = UrlOnly
    /\ st.before = FileJson(MarshalIndent([default |-> Stored2, S1 |-> Stored1]))
    /\ loadAllCredentials(file).allCreds = [default |-> Stored2, S1 |-> UrlOnly]

\* C12: GetCredentials("") and GetCredentials("default") return the same
\* result on every file; a SaveCredentials of B that returns nil under "" or
\* under "default" leaves the collection before with B at key "default"; and
\* the tenant the dispatch helpers extract from a subject without a "bin"
\* segment reads the bundle stored under "default".
C12_EmptyIsDefault ==
    /\ GetCredentials(file, "") = GetCredentials(file, "default")
    /\ HasCredentials(file, "") = HasCredentials(file, "default")
    /\ (SavedOk /\ st.spaceID \in {"", "default"}) =>
        loadAllCredentials(file).allCreds =
            MapSet(loadAllCredentials(st.before).allCreds, "default", st.creds)
    /\ (st.op = "get" /\ st.spaceID = "") =>
        [err |-> st.err, creds |-> st.bundle] = GetCredentials(st.before, "default")
    /\ \A t \in {extractSpaceIdFromSubject(SubjectNone),
                 extractSpaceIdFromSubjectJob(SubjectNone)} :
        GetCredentials(file, t) = GetCredentials(file, "default")

C12_Witness ==
    /\ SavedOk /\ st.spaceID = "" /\ st.creds = Stored2
    /\ st.before = FileJson(MarshalIndent([S1 |-> Stored1]))
    /\ GetCredentials(file, "default") = [err |-> "nil", creds |-> Stored2]
    /\ DOMAIN loadAllCredentials(file).allCreds = {"S1", "default"}

\* C13: whenever the file holds a collection, no two of its members have the
\* same key, and every member has a non-empty instanceUrl, email and apiToken.
C13_OneCompleteBundlePerKey ==
    file.state = "json" =>
        /\ \A m1, m2 \in file.members : m1.key = m2.key => m1 = m2
        /\ \A m \in file.members :
            m.instanceUrl # "" /\ m.email # "" /\ m.apiToken # ""

C13_Witness ==
    /\ file.state = "json"
    /\ {m.key : m \in file.members} = {"S1", "default"}
    /\ \E n \in Msgs :
        /\ IsOnboarding(n) /\ replies[n] = <<OnboardingAccepted>>
        /\ \E m \in file.members :
            m.key = KeyOf(n) /\ m.apiToken = "tok2" /\ m.email = "c@d.com"

\* the keys of the collection in file f, when f holds one
KeysIn(f) == {m.key : m \in f.members}

\* C14: GetCredentials(T) returns the not-found error exactly when the file
\* holds a collection without T's key; on a missing, unreadable or unparseable
\* file it returns the error of the read or of the parse; it returns a bundle
\* exactly when the file holds a collection with T's key, and none with an error.
C14_GetErrors ==
    st.op = "get" =>
        LET key == IF st.spaceID = "" THEN "default" ELSE st.spaceID
            readable == st.before.state = "json"
        IN /\ st.err = "not_found" <=> (readable /\ key \notin KeysIn(st.before))
           /\ st.err = "nil" <=> (readable /\ key \in KeysIn(st.before))
           /\ st.before.state = "missing" => st.err = "not_exist"
           /\ st.before.state = "unreadable" => st.err = "read"
           /\ st.before.state \in {"empty", "torn"} => st.err = "unmarshal"
           /\ st.err # "nil" => st.bundle = NoCreds

C14_Witness ==
    /\ st.op = "get" /\ st.spaceID = "S1" /\ st.err = "not_found"
    /\ st.before = FileJson(MarshalIndent([default |-> Stored1]))
    /\ st.bundle = NoCreds

\* C15: HasCredentials(T) is true exactly when GetCredentials(T) returns no
\* error, on every file; and a dispatch that checks the credentials of its
\* tenant while GetCredentials fails, for whatever reason, answers
\* credentials_not_configured and ends.
C15_ExistsSwallowsErrors ==
    /\ [](\A T \in TenantIds :
            HasCredentials(file, T) <=> GetCredentials(file, T).err = "nil")
    /\ [][\A n \in Msgs :
            (pc[n] = "has" /\ pc'[n] # "has") =>
                IF GetCredentials(file, loc[n].spaceID).err = "nil"
                THEN pc'[n] = "get" /\ replies'[n] = <<>>
                ELSE /\ pc'[n] = "done"
                     /\ replies'[n] =
                            <<NotConfigured(loc[n].spaceID, msg[n].handler)>>]_vars

C15_Witness ==
    \E n \in Msgs :
        /\ IsAction(n) /\ KeyOf(n) \in saved /\ pc[n] = "done"
        /\ file.state \in {"empty", "torn"}
        /\ replies[n] = <<NotConfigured(SpaceOf(msg[n]), msg[n].handler)>>

\* C16: SaveCredentials(T, B) on a missing file does not fail at the load, and
\* when it returns nil the file holds the collection of T's key alone, with B;
\* on a file that cannot be read or parsed it returns the error of the load
\* and the file is what it was.
C16_SaveLoadFailures ==
    st.op = "save" =>
        /\ st.before.state = "missing" =>
            /\ st.err # "load"
            /\ st.err = "nil" =>
                loadAllCredentials(file) =
                    [err |-> "nil",
                     allCreds |-> MapSet(EmptyMap,
                        IF st.spaceID = "" THEN "default" ELSE st.spaceID,
                        st.creds)]
        /\ st.before.state \in {"unreadable", "empty", "torn"} =>
            st.err = "load" /\ file = st.before

C16_Witness ==
    /\ st.op = "save" /\ st.spaceID = "S1" /\ st.creds = Stored1
    /\ st.before = FileTorn
    /\ st.err = "load" /\ file = FileTorn

\* C17, as claimed: GetAllSpaces returns, with no error, the keys of the
\* collection when the file holds one, and no key when the file is missing.
C17_ListTenants ==
    st.op = "list" =>
        /\ st.before.state = "json" =>
            st.err = "nil" /\ st.spaces = KeysIn(st.before)
        /\ st.before.state = "missing" =>
            st.err = "nil" /\ st.spaces = {}

\* the text holds the pieces of sub, in a row
Contains(text, sub) ==
    \E i \in 1..(Len(text) - Len(sub) + 1) :
        SubSeq(text, i, i + Len(sub) - 1) = sub

Exchanged == hd.phase = "returned" /\ hd.calls # <<>>

\* C18, as claimed: whichever client method made the request, when the answer
\* is status 400 with body {"errorMessages":["bad"],"errors":{"summary":
\* "required"}}, the text of the returned error contains "bad" and
\* "summary: required".
C18_ErrorTextHasEveryPart ==
    (Exchanged /\ hd.resp = Response("400", JiraErrorBody)) =>
        /\ Contains(ErrorText(hd.err), <<"bad">>)
        /\ Contains(ErrorText(hd.err), <<"summary", ": ", "required">>)

ExpectedStatus(action) ==
    IF action = "projects.list" THEN {"200"}
    ELSE IF action = "issues.delete" THEN {"204", "200"}
    ELSE {"201"}

\* C19, as claimed: a client method returns no error only on an expected
\* status; on every other status it returns an error with the status, whose
\* text is the raw body exactly when the body does not parse or parses to no
\* error message and no field error, and is made of the parsed error otherwise.
C19_StatusErrors ==
    (Exchanged /\ ~hd.resp.neterr) =>
        LET body == hd.resp.body
            noParts == ~body.json
                        \/ (body.errorMessages = <<>> /\ body.errors = <<>>)
        IN /\ hd.err.kind = "nil" => hd.resp.status \in ExpectedStatus(hd.action)
           /\ hd.resp.status \notin ExpectedStatus(hd.action) =>
                /\ hd.err.kind = "api"
                /\ Contains(ErrorText(hd.err), <<hd.resp.status>>)
                /\ hd.err.parts = body.text <=> noParts
                /\ ~noParts =>
                    \A i \in 1..Len(body.errorMessages) :
                        Contains(hd.err.parts, <<body.errorMessages[i]>>)

\* the exchange failed: no response, or a status the client method rejects
FailedCall(action, resp) ==
    resp.neterr \/ resp.status \notin ExpectedStatus(action)

IsApiError(result) ==
    "error" \in DOMAIN result /\ result.error = "jira_api_error"

\* the completion events of the job that message n acknowledged
EventsOf(n) ==
    {i \in 1..Len(events) : HasAck(n) /\ events[i].jobId = replies[n][1].jobId}

\* C20: a dispatch invokes its business function at most once and makes at
\* most one HTTP request, which gets at most one outcome; when the dispatch
\* has ended and that outcome was a failure, the caller got a jira_api_error
\* result exactly once: as the only reply (direct version), or as the result
\* of the only completion event of the job (job version).
C20_NothingRetried ==
    \A n \in Msgs :
        IsAction(n) =>
            /\ started[n] <= 1 /\ Len(calls[n]) <= 1
            /\ Len(resps[n]) <= Len(calls[n])
            /\ (/\ pc[n] = "done" /\ Len(resps[n]) = 1
                /\ FailedCall(msg[n].handler, resps[n][1])) =>
                    IF msg[n].proto = "direct"
                    THEN Len(replies[n]) = 1 /\ IsApiError(replies[n][1])
                    ELSE /\ Cardinality(EventsOf(n)) = 1
                         /\ \A i \in EventsOf(n) : IsApiError(events[i].result)
                         /\ Len(replies[n]) = 1

C20_Witness ==
    \E n \in Msgs :
        /\ IsAction(n) /\ msg[n].proto = "job" /\ pc[n] = "done"
        /\ started[n] = 1 /\ Len(calls[n]) = 1 /\ resps[n] = <<NetErr>>
        /\ \E i \in EventsOf(n) : IsApiError(events[i].result)

----------------------------------------------------------------------------
(* The two versions of the dispatch helper *)

\* the dispatch of message n has ended
Ended(n) == IsAction(n) /\ pc[n] = "done"

\* r is one of the helper's own rejections, sent before the business function
IsRejection(r) ==
    "error" \in DOMAIN r /\
    r.error \in {"Invalid request data", "invalid_request",
                 "credentials_not_configured", "credentials_error",
                 "internal_error"}

\* C21, as claimed: every action answers directly: no job is ever recorded, no
\* completion event is ever published, and a dispatch whose business function
\* ran has as its only reply the result of that function, never an
\* acknowledgment.
C21_EveryActionAnswersDirectly ==
    /\ jobs = <<>> /\ events = <<>>
    /\ \A n \in Msgs :
        (Ended(n) /\ started[n] = 1) =>
            /\ Len(replies[n]) = 1
            /\ ~HasAck(n)
            /\ ~IsRejection(replies[n][1])

\* the stage of a dispatch at a point of the helper: 1 RECEIVED, 2 BODY_DECODED,
\* 3 AUTHORIZED, 4 EXECUTING, 5 RESPONDED
Stage(at) ==
    CASE at = "idle" -> 1
      [] at \in {"has", "get"} -> 2
      [] at \in {"ack", "exec"} -> 3
      [] at = "return" -> 4
      [] OTHER -> 5

\* the points of the helper in the order of its text
Order(at) ==
    CASE at = "idle" -> 0
      [] at = "has" -> 1
      [] at = "get" -> 2
      [] at = "ack" -> 3
      [] at = "exec" -> 4
      [] at = "return" -> 5
      [] OTHER -> 6

\* C22: a dispatch only moves forward through RECEIVED, BODY_DECODED,
\* AUTHORIZED, EXECUTING and RESPONDED: each step takes it to a later point of
\* the helper, within its stage, to the next stage, or straight to RESPONDED.
\* The store is consulted only with the payload decoded, so a payload that
\* does not decode is answered invalid-request whatever the store holds.
C22_StagesInOrder ==
    /\ [](\A n \in Msgs :
            IsAction(n) =>
                /\ pc[n] \in {"has", "get", "ack", "exec", "return"} =>
                       /\ ~DecodeRequest(msg[n].data).err
                       /\ loc[n].body = DecodeRequest(msg[n].data).body
                /\ (pc[n] = "done" /\ DecodeRequest(msg[n].data).err) =>
                       replies[n] = <<InvalidRequest(msg[n].proto)>>)
    /\ [][\A n \in Msgs :
            (msg'[n].handler \in Actions /\ pc'[n] # pc[n]) =>
                /\ Order(pc'[n]) > Order(pc[n])
                /\ \/ Stage(pc'[n]) \in {Stage(pc[n]), Stage(pc[n]) + 1}
                   \/ pc'[n] = "done"]_vars

C22_Witness ==
    \E n, k \in Msgs :
        /\ Ended(n) /\ msg[n].data = DataMalformed
        /\ KeyOf(n) \notin saved /\ ~HasCredentials(file, SpaceOf(msg[n]))
        /\ replies[n] = <<InvalidRequest(msg[n].proto)>>
        /\ Ended(k) /\ started[k] = 1

\* the payloads without a body: no payload, or an envelope with no body field
Bodiless == {DataEmpty, EnvelopeNoBody}

\* C23: a payload that is not empty and does not decode is answered
\* invalid-request in the first step of the helper, before any read of the
\* store, and its business function never runs; no payload, and an envelope
\* without a body field, give the empty body and go on to the credentials
\* check.
C23_DecodeFailureAndEmptyBody ==
    /\ [](\A n \in Msgs :
            (IsAction(n) /\ msg[n].data = DataMalformed) =>
                /\ pc[n] = "done"
                /\ replies[n] = <<InvalidRequest(msg[n].proto)>>
                /\ started[n] = 0 /\ calls[n] = <<>>)
    /\ [][\A n \in Msgs :
            (msg'[n].handler \in Actions /\ pc[n] = "idle" /\ pc'[n] # "idle"
             /\ msg'[n].data \in Bodiless) =>
                /\ pc'[n] = "has"
                /\ loc'[n].body = EmptyMap
                /\ replies'[n] = <<>>]_vars

C23_Witness ==
    \E n, k \in Msgs :
        /\ IsAction(n) /\ msg[n].data = EnvelopeNoBody
        /\ pc[n] = "get" /\ loc[n].body = EmptyMap
        /\ Ended(k) /\ msg[k].data = DataMalformed /\ started[k] = 0

\* C24: every credentials-not-configured reply carries the tenant id that the
\* router extracts from the subject of the message it answers (the empty
\* string when the subject has none) and the name of the action.
C24_NotConfiguredNamesTenantAndAction ==
    \A n \in Msgs :
        \A i \in 1..Len(replies[n]) :
            (IsAction(n) /\ "error" \in DOMAIN replies[n][i]
             /\ replies[n][i].error = "credentials_not_configured") =>
                /\ {"action", "spaceId"} \subseteq DOMAIN replies[n][i]
                /\ replies[n][i].spaceId = AfterFirstBin(msg[n].subject)
                /\ replies[n][i].action = msg[n].handler

C24_Witness ==
    \E n, k \in Msgs :
        /\ Ended(n) /\ msg[n].subject = SubjectS1
        /\ replies[n][1].error = "credentials_not_configured"
        /\ replies[n][1].spaceId = "S1"
        /\ replies[n][1].action = "issues.create"
        /\ Ended(k) /\ msg[k].subject = SubjectNone
        /\ replies[k][1].error = "credentials_not_configured"
        /\ replies[k][1].spaceId = ""
        /\ replies[k][1].action = "projects.list"

\* C25: when the existence check of a dispatch passed and the read of the
\* bundle that follows fails, the dispatch ends there with the credentials
\* error as its only reply; a dispatch answered with a credentials error never
\* ran its business function, made no request, and published nothing.
C25_GetFailureAfterExists ==
    /\ [](\A n \in Msgs :
            (Ended(n) /\ Len(replies[n]) >= 1
             /\ "error" \in DOMAIN replies[n][1]
             /\ replies[n][1].error = "credentials_error") =>
                /\ Len(replies[n]) = 1
                /\ started[n] = 0 /\ calls[n] = <<>>
                /\ NewUUID(n) \notin DOMAIN jobs
                /\ \A i \in 1..Len(events) : events[i].jobId # NewUUID(n))
    /\ [][\A n \in Msgs :
            (IsAction(n) /\ pc[n] = "get" /\ pc'[n] # "get"
             /\ GetCredentials(file, loc[n].spaceID).err # "nil") =>
                /\ pc'[n] = "done"
                /\ replies'[n] =
                       <<CredentialsError(GetCredentials(file, loc[n].spaceID).err)>>
                /\ started'[n] = 0]_vars

C25_Witness ==
    \E n \in Msgs :
        /\ Ended(n) /\ msg[n].proto = "job"
        /\ replies[n] = <<CredentialsError("unmarshal")>>
        /\ started[n] = 0 /\ calls[n] = <<>>

\* the dispatches whose business function must have run: those inside it, and
\* those that ended with anything but one of the helper's rejections
Ran == {n \in Msgs : IsAction(n) /\ (pc[n] = "return" \/
                        (pc[n] = "done" /\ ~IsRejection(replies[n][1])))}

RECURSIVE Runs(_)
Runs(n) == IF n = 0 THEN 0 ELSE started[n] + Runs(n - 1)

\* C26: a dispatch runs its business function at most once, and exactly once
\* precisely when its payload decoded and its bundle was fetched: a dispatch
\* leaves the fetch towards the function just when the fetch succeeded, the
\* function has not run before that point, and it has run once beyond it.
\* The runs add up over the dispatches, also over concurrent dispatches for
\* one tenant: as many runs as dispatches that got that far.
C26_BusinessFunctionOncePerDispatch ==
    /\ [](/\ \A n \in Msgs :
               IsAction(n) =>
                   /\ started[n] <= 1
                   /\ started[n] = 1 <=> n \in Ran
          /\ Runs(MaxMsgs) = Cardinality(Ran))
    /\ [][\A n \in Msgs :
            (IsAction(n) /\ pc[n] = "get" /\ pc'[n] # "get") =>
                (GetCredentials(file, loc[n].spaceID).err = "nil"
                     <=> pc'[n] \in {"ack", "exec"})]_vars

C26_Witness ==
    \E n, k \in Msgs :
        /\ n # k /\ IsAction(n) /\ IsAction(k)
        /\ msg[n].subject = SubjectS1 /\ msg[k] = msg[n]
        /\ pc[n] = "return" /\ pc[k] = "return"
        /\ started[n] = 1 /\ started[k] = 1
        /\ Len(calls[n]) = 1 /\ calls[k] = calls[n]

----------------------------------------------------------------------------
(* The job handshake *)

\* C27, as claimed: every acknowledgment has progress 0 and a job id that no
\* other dispatch acknowledged, and from the moment it is answered the plugin's
\* association maps that job id to the tenant id of the message's subject.
C27_AckIsFreshAndRecorded ==
    \A n \in Msgs :
        (IsAction(n) /\ HasAck(n)) =>
            /\ replies[n][1].progress = 0
            /\ \A k \in Msgs \ {n} :
                   HasAck(k) => replies[k][1].jobId # replies[n][1].jobId
            /\ replies[n][1].jobId \in DOMAIN jobs
            /\ jobs[replies[n][1].jobId] = AfterFirstBin(msg[n].subject)

\* the result that the business function of message n returns in this step
ResultNow(n) ==
    IF calls[n] = <<>> THEN loc[n].result
    ELSE HandlerResult(msg[n].handler, loc[n].body, resps'[n][Len(resps'[n])])

\* C28: a job id has at most one completion event, every completion event is
\* for a job id that was acknowledged, and events are published only by the
\* step in which a dispatch of the job version ends after its business
\* function: one event, with the job id that dispatch acknowledged and the
\* result its business function returned.
C28_JobConsumedOnce ==
    /\ [](/\ \A i, j \in 1..Len(events) :
               events[i].jobId = events[j].jobId => i = j
          /\ \A i \in 1..Len(events) : events[i].jobId \in AckedJobs)
    /\ [][events' # events =>
            \E n \in Msgs :
                /\ msg[n].proto = "job" /\ HasAck(n)
                /\ pc[n] = "return" /\ pc'[n] = "done"
                /\ events' = Append(events, [jobId |-> replies[n][1].jobId,
                                             result |-> ResultNow(n)])]_vars

C28_Witness ==
    \E n \in Msgs :
        /\ Ended(n) /\ msg[n].proto = "job" /\ HasAck(n)
        /\ Cardinality(EventsOf(n)) = 1
        /\ \A i \in EventsOf(n) :
               /\ "result" \in DOMAIN events[i].result
               /\ events[i].result.result = "success"
        /\ resps[n] = <<Response("201", IssueBody)>>

\* C29, as claimed: a dispatch that answered an acknowledgment and has ended
\* has published a completion event for the job id it acknowledged.
C29_AckThenCompletion ==
    \A n \in Msgs :
        (Ended(n) /\ HasAck(n)) => EventsOf(n) # {}

----------------------------------------------------------------------------
(* The result of the business function *)

IsValidationError(result) ==
    "error" \in DOMAIN result /\ result.error = "validation_error"

\* C31: the step in which a dispatch ends after its business function delivers
\* the mapping that the function returned, as it is: as the only reply in the
\* direct version, as the result of the completion event in the job version;
\* the step is the same whether the mapping is a success, a validation_error
\* or a jira_api_error.  (Whether the job version publishes the event at all
\* is the subject of C29.)
C31_ResultForwardedUnchanged ==
    [][\A n \in Msgs :
        (IsAction(n) /\ pc[n] = "return" /\ pc'[n] = "done") =>
            IF msg[n].proto = "direct"
            THEN /\ replies'[n] = <<ResultNow(n)>>
                 /\ events' = events
            ELSE /\ replies'[n] = replies[n]
                 /\ events' \in {events,
                                 Append(events, [jobId |-> replies[n][1].jobId,
                                                 result |-> ResultNow(n)])}]_vars

C31_Witness ==
    \E n, k \in Msgs :
        /\ Ended(n) /\ msg[n].proto = "direct" /\ started[n] = 1
        /\ IsValidationError(replies[n][1])
        /\ Ended(k) /\ msg[k].proto = "job" /\ started[k] = 1
        /\ resps[k] = <<Response("400", JiraErrorBody)>>
        /\ \E i \in EventsOf(k) : IsApiError(events[i].result)

----------------------------------------------------------------------------
(* Reads and writes of the collection *)

IsIntro(n) == msg[n].handler = "intro"

\* C32: the file changes only in a step of SaveCredentials made for an
\* onboarding: no call of GetCredentials, HasCredentials or GetAllSpaces, no
\* step of the intro responder and no step of an action dispatch, in either
\* version and on any path, changes it.
C32_ReadsNeverMutate ==
    [][/\ file' # file =>
            \E n \in Msgs :
                /\ IsOnboarding(n)
                /\ pc[n] \in {"save_open", "save_write"} /\ pc'[n] # pc[n]
       /\ st' # st => file' = file
       /\ \A n \in Msgs :
            (pc'[n] # pc[n] /\ msg'[n].handler \in Actions \cup {"intro"}) =>
                file' = file]_vars

C32_Witness ==
    \E n, k \in Msgs :
        /\ Ended(n) /\ started[n] = 1
        /\ IsIntro(k) /\ pc[k] = "done"
        /\ replies[k] = <<IntroOf(TRUE, "S1")>>
        /\ st.n = MaxCalls /\ st.op = "list" /\ st.spaces = {"S1"}
        /\ file = FileJson(MarshalIndent([S1 |-> Stored1]))

\* the bundle that onboardingHandler builds from a payload
BundleOf(data) ==
    JiraCredentials(getStringValue(UnmarshalMap(data).val, "instanceUrl"),
                    getStringValue(UnmarshalMap(data).val, "email"),
                    getStringValue(UnmarshalMap(data).val, "apiToken"))

\* the bundles passed to a save for key k: by an onboarding of this run, or by
\* the earlier run that left the collection the plugin started with
Submitted(k) ==
    {BundleOf(msg[n].data) : n \in {i \in Msgs : IsOnboarding(i) /\ KeyOf(i) = k}}
        \cup (IF k = "S1" THEN {Stored1} ELSE {})

NoSaveRunning == \A n \in Msgs : pc[n] \notin {"save_load", "save_open", "save_write"}

\* C33: whenever all saves have returned and the file holds a collection, the
\* bundle under each key is, in all three fields, a bundle that was passed to
\* a save for that key: never fields of two submissions.
C33_StoredBundleIsOneSubmission ==
    (NoSaveRunning /\ file.state = "json") =>
        \A k \in DOMAIN Unmarshal(file.members) :
            Unmarshal(file.members)[k] \in Submitted(k)

C33_Witness ==
    /\ IsOnboarding(1) /\ IsOnboarding(2)
    /\ msg[1].subject = SubjectS1 /\ msg[2].subject = SubjectS1
    /\ msg[1].data = Onboarding2 /\ msg[2].data = Onboarding1
    /\ replies[1] = <<OnboardingAccepted>> /\ replies[2] = <<OnboardingAccepted>>
    /\ NoSaveRunning
    /\ GetCredentials(file, "S1").err = "nil"
    /\ GetCredentials(file, "S1").creds = BundleOf(Onboarding2)

\* the helper's rejections for want of credentials
IsCredentialsRejection(r) ==
    "error" \in DOMAIN r /\
    r.error \in {"credentials_not_configured", "credentials_error"}

\* C34, as claimed: a dispatch for a tenant whose onboarding was accepted
\* before the dispatch began (here: in an earlier run, no onboarding of this
\* run being for that tenant) is never answered credentials-not-configured or
\* credentials error, whatever onboardings for other tenants run beside it.
C34_AcceptedTenantIsAuthorized ==
    \A n \in Msgs :
        (/\ Ended(n) /\ KeyOf(n) \in DOMAIN accepted
         /\ \A k \in Msgs : IsOnboarding(k) => KeyOf(k) # KeyOf(n)) =>
            ~IsCredentialsRejection(replies[n][1])

----------------------------------------------------------------------------
(* Tenant isolation *)

\* the key of the tenant named by the subject of message n
OwnKey(n) == SpaceKey(AfterFirstBin(msg[n].subject))

\* the files that hold a collection with the same entry, or the same absence
\* of an entry, under key k as the collection c, whatever their other entries
SameUnder(c, k) ==
    {FileJson(MarshalIndent(d)) :
        d \in {e \in Collections :
                 /\ (k \in DOMAIN e) = (k \in DOMAIN c)
                 /\ k \in DOMAIN c => e[k] = c[k]}}

\* C35: the existence check and the fetch of a dispatch decide as they would
\* on any collection with the same entry under the key of the tenant of the
\* message's own subject, whatever is stored under the other keys; the
\* bundle fetched is the one stored under that key, and the request of the
\* business function is made to that bundle's instance with that bundle's
\* token.
C35_TenantIsolation ==
    [][\A n \in Msgs :
        /\ (IsAction(n) /\ pc[n] = "has" /\ pc'[n] # "has"
            /\ file.state = "json") =>
               \A g \in SameUnder(Unmarshal(file.members), OwnKey(n)) :
                   (pc'[n] = "get") = HasCredentials(g, AfterFirstBin(msg[n].subject))
        /\ (IsAction(n) /\ pc[n] = "get" /\ pc'[n] \in {"ack", "exec"}) =>
               /\ file.state = "json"
               /\ OwnKey(n) \in DOMAIN Unmarshal(file.members)
               /\ loc'[n].creds = Unmarshal(file.members)[OwnKey(n)]
               /\ \A g \in SameUnder(Unmarshal(file.members), OwnKey(n)) :
                      GetCredentials(g, AfterFirstBin(msg[n].subject)) =
                          [err |-> "nil", creds |-> loc'[n].creds]
        /\ (IsAction(n) /\ pc[n] = "exec" /\ calls'[n] # calls[n]) =>
               /\ calls'[n][1].bearer = loc[n].creds.APIToken
               /\ calls'[n][1].base = TrimSlash(loc[n].creds.InstanceURL)]_vars

C35_Witness ==
    \E n \in Msgs :
        /\ IsAction(n) /\ pc[n] = "return" /\ msg[n].subject = SubjectS1
        /\ file = FileJson(MarshalIndent([S1 |-> Stored1, default |-> Stored2]))
        /\ Len(calls[n]) = 1
        /\ calls[n][1].bearer = "tok"
        /\ calls[n][1].base = "https://x.atlassian.net"

----------------------------------------------------------------------------
(* Onboarding *)

CredentialFields == {"instanceUrl", "email", "apiToken"}

\* the payload does not decode, or one of the three fields is missing, is not
\* a string, or is the empty string
BadOnboarding(data) ==
    data.kind # "json" \/ \E k \in CredentialFields : Unusable(data.val, k)

\* C36: an onboarding has no reply while it runs and exactly one when it has
\* ended.  It ends at once, with an error reply and the file untouched, exactly
\* when its payload does not decode or lacks a usable instanceUrl, email or
\* apiToken.  It answers "accepted" exactly in the step in which SaveCredentials
\* writes the collection with the bundle of the payload under the tenant's key
\* (and returns nil); a save that fails at its load or at its open leaves the
\* file as it is and gets an error reply.
C36_OnboardingAcceptedIffSaved ==
    /\ [](\A n \in Msgs :
            IsOnboarding(n) =>
                /\ Len(replies[n]) = (IF pc[n] = "done" THEN 1 ELSE 0)
                /\ BadOnboarding(msg[n].data) =>
                       /\ pc[n] = "done"
                       /\ replies[n][1].status = "error")
    /\ [][\A n \in Msgs :
            (msg'[n].handler = "onboarding" /\ pc[n] # "done" /\ pc'[n] = "done") =>
                /\ (pc[n] = "idle") => BadOnboarding(msg'[n].data)
                /\ (replies'[n] = <<OnboardingAccepted>>) <=> (pc[n] = "save_write")
                /\ (pc[n] = "save_write") =>
                       /\ file' \in {FileTorn,
                                     FileJson(MarshalIndent(loc[n].allCreds))}
                       /\ loc[n].allCreds[OwnKey(n)] = BundleOf(msg[n].data)
                /\ (pc[n] # "save_write") =>
                       /\ replies'[n][1].status = "error"
                       /\ file' = file]_vars

C36_Witness ==
    \E n, k \in Msgs :
        /\ IsOnboarding(n) /\ msg[n].data = OnboardingNumericUrl
        /\ replies[n] = <<OnboardingError("Missing required fields")>>
        /\ IsOnboarding(k) /\ msg[k].data = Onboarding2
        /\ replies[k] = <<OnboardingAccepted>>
        /\ GetCredentials(file, SpaceOf(msg[k])) =
               [err |-> "nil", creds |-> Stored2]

----------------------------------------------------------------------------
(* The two versions of the dispatch helper, side by side *)

\* the dispatch of message n is past the helper's decisions
Decided(n) == IsAction(n) /\ pc[n] \in {"ack", "exec", "return", "done"}

\* what the helper decided for message n: the kind of its rejection, or to
\* run the business function
Decision(n) ==
    IF pc[n] = "done" /\ IsRejection(replies[n][1])
    THEN (IF replies[n][1].error \in {"Invalid request data", "invalid_request"}
          THEN "invalid_request" ELSE replies[n][1].error)
    ELSE "execute"

\* messages n and k are the same message, but for the version that handles it
Twins(n, k) ==
    /\ IsAction(n) /\ IsAction(k)
    /\ msg[n].proto = "direct" /\ msg[k].proto = "job"
    /\ msg[n].handler = msg[k].handler
    /\ msg[n].subject = msg[k].subject
    /\ msg[n].data = msg[k].data

----------------------------------------------------------------------------
(* Termination *)

\* C38, as claimed: every dispatch that began ends, and in the job version a
\* dispatch that answered the acknowledgment ends with the completion event of
\* its job published.
C38_EveryDispatchResponds ==
    \A n \in Msgs :
        IsAction(n) ~>
            (pc[n] = "done" /\ (HasAck(n) => EventsOf(n) # {}))

\* every dispatch that began ends
DispatchEnds == \A n \in Msgs : IsAction(n) ~> (pc[n] = "done")

----------------------------------------------------------------------------
(* The fields of a created issue *)

\* the "fields" object of the request that the business function made
SentFields == hd.calls[1].body.fields.v

CreateCalled ==
    hd.action = "issues.create" /\ hd.phase \in {"called", "returned"}
        /\ hd.calls # <<>>

\* no field of the request is nil or the empty string
NoEmptyFieldSent ==
    CreateCalled =>
        \A k \in DOMAIN SentFields : ~IsNil(SentFields[k]) /\ ~IsEmptyStr(SentFields[k])

\* C39, as claimed: the fields object of the request of issues.create has
\* project.key, summary and issuetype.name equal to the projectKey, summary and
\* issueType of the body, which passed validation, whatever else the body
\* holds, and no field that is nil or the empty string.
C39_CoreFieldsAreTheValidatedOnes ==
    CreateCalled =>
        /\ SentFields["project"] = Obj([key |-> Str(StringOf(hd.body, "projectKey"))])
        /\ SentFields["summary"] = Str(StringOf(hd.body, "summary"))
        /\ SentFields["issuetype"] = Obj([name |-> Str(StringOf(hd.body, "issueType"))])
        /\ \A k \in DOMAIN SentFields :
               ~IsNil(SentFields[k]) /\ ~IsEmptyStr(SentFields[k])

=============================================================================
